---------------------------- MODULE Spec2Model ----------------------------
(***************************************************************************)
(* A model of the portfolio optimisation engine: PortfolioMetrics          *)
(* (src/src/metrics.py) and PortfolioOptimizer (src/src/optimizer.py),     *)
(* with the part of the front end (src/app.py) that collects the weight    *)
(* bounds and runs the optimisation.                                       *)
(*                                                                         *)
(* Numbers.  A float64 is modelled as an exact rational n/d (d > 0, in     *)
(* lowest terms) or one of the IEEE special values NaN, +inf, -inf.  The   *)
(* arithmetic follows numpy's float64 rules for the special values         *)
(* (x/0 is +-inf, 0/0 is NaN, sqrt of a negative is NaN, NaN compares      *)
(* unequal to everything); numpy warns there and raises nothing.  Rounding *)
(* of finite values is not modelled, except in the square root, which is   *)
(* rounded down to a multiple of 1/SqrtPrec.  Signed zeros are not         *)
(* modelled.                                                               *)
(***************************************************************************)
EXTENDS Integers, Sequences, FiniteSets, TLC

(***************************************************************************)
(* Bounds of the model.                                                    *)
(***************************************************************************)
MaxN == 6          \* assets of an optimizer: n_assets \in 1..MaxN
MaxK == 2          \* n_portfolios of generate_efficient_frontier: 0..MaxK
MaxF == 4          \* assets of an optimizer whose frontier is generated: 1..MaxF
MaxT == 3          \* periods of a realized return series: 1..MaxT
SqrtPrec == 100    \* the square root is rounded down to a multiple of 1/SqrtPrec

(***************************************************************************)
(* float64                                                                 *)
(***************************************************************************)
Abs(x) == IF x < 0 THEN -x ELSE x

RECURSIVE Gcd(_, _)
Gcd(a, b) == IF b = 0 THEN a ELSE Gcd(b, a % b)

\* The finite float n/d, d > 0, in lowest terms.
Fin(n, d) ==
    LET g == Gcd(Abs(n), d)
    IN  [tag |-> "fin", n |-> n \div g, d |-> d \div g]

NaN  == [tag |-> "nan",  n |-> 0, d |-> 1]
PInf == [tag |-> "pinf", n |-> 0, d |-> 1]
NInf == [tag |-> "ninf", n |-> 0, d |-> 1]
Zero == Fin(0, 1)
FOne == Fin(1, 1)

IsFin(a) == a.tag = "fin"
IsNaN(a) == a.tag = "nan"
\* -1, 0, 1: the sign of a float that is not NaN
Sign(a) ==
    CASE a.tag = "pinf" -> 1
      [] a.tag = "ninf" -> -1
      [] OTHER -> IF a.n > 0 THEN 1 ELSE IF a.n < 0 THEN -1 ELSE 0
Signed(s) == IF s > 0 THEN PInf ELSE NInf

FNeg(a) ==
    CASE a.tag = "fin"  -> Fin(-a.n, a.d)
      [] a.tag = "pinf" -> NInf
      [] a.tag = "ninf" -> PInf
      [] OTHER -> NaN

\* the least common multiple of two denominators
Lcm(a, b) == (a \div Gcd(a, b)) * b

FAdd(a, b) ==
    IF IsNaN(a) \/ IsNaN(b) THEN NaN
    ELSE IF IsFin(a) /\ IsFin(b)
         THEN LET l == Lcm(a.d, b.d)
              IN  Fin(a.n * (l \div a.d) + b.n * (l \div b.d), l)
    ELSE IF IsFin(a) THEN b
    ELSE IF IsFin(b) THEN a
    ELSE IF a = b THEN a ELSE NaN          \* inf + (-inf)

FSub(a, b) == FAdd(a, FNeg(b))

FMul(a, b) ==
    IF IsNaN(a) \/ IsNaN(b) THEN NaN
    ELSE IF IsFin(a) /\ IsFin(b)
         THEN LET g == Gcd(Abs(a.n), b.d)
                  h == Gcd(Abs(b.n), a.d)
              IN  Fin((a.n \div g) * (b.n \div h), (a.d \div h) * (b.d \div g))
    ELSE IF Sign(a) * Sign(b) = 0 THEN NaN  \* 0 * inf
    ELSE Signed(Sign(a) * Sign(b))

\* numpy float64 true division: a warning, never an exception
FDiv(a, b) ==
    IF IsNaN(a) \/ IsNaN(b) THEN NaN
    ELSE IF IsFin(b) /\ b.n = 0
         THEN IF Sign(a) = 0 THEN NaN ELSE Signed(Sign(a))
    ELSE IF IsFin(a) /\ IsFin(b)
         THEN FMul(a, Fin(b.d * Sign(b), Abs(b.n)))
    ELSE IF IsFin(a) THEN Zero                \* finite / inf
    ELSE IF IsFin(b) THEN Signed(Sign(a) * Sign(b))
    ELSE NaN                                  \* inf / inf

FAbs(a) == IF a.tag = "ninf" THEN PInf ELSE IF IsFin(a) THEN Fin(Abs(a.n), a.d) ELSE a

\* comparisons: every comparison with NaN is false
FEq(a, b) == ~IsNaN(a) /\ ~IsNaN(b) /\ a = b
FLt(a, b) ==
    /\ ~IsNaN(a) /\ ~IsNaN(b)
    /\ IF IsFin(a) /\ IsFin(b)
       THEN LET l == Lcm(a.d, b.d)
            IN  a.n * (l \div a.d) < b.n * (l \div b.d)
       ELSE IF a = b THEN FALSE
       ELSE a.tag = "ninf" \/ b.tag = "pinf"
FLe(a, b) == FLt(a, b) \/ FEq(a, b)

\* the largest r with r*r <= x, for 0 <= x < 2^31, by bisection
RECURSIVE ISqrtIn(_, _, _)
ISqrtIn(x, lo, hi) ==
    IF hi - lo <= 1 THEN lo
    ELSE LET mid == (lo + hi) \div 2
         IN  IF mid * mid <= x THEN ISqrtIn(x, mid, hi) ELSE ISqrtIn(x, lo, mid)
ISqrt(x) == ISqrtIn(x, 0, IF x < 46340 THEN x + 1 ELSE 46341)

\* floor(a * s) for a finite a >= 0, kept inside 32 bits
Scaled(a, s) ==
    IF a.n <= 2147483647 \div s THEN (a.n * s) \div a.d
    ELSE a.n \div (a.d \div s)

\* np.sqrt: NaN for a negative operand (a warning, no exception)
FSqrt(a) ==
    CASE a.tag = "nan"  -> NaN
      [] a.tag = "ninf" -> NaN
      [] a.tag = "pinf" -> PInf
      [] OTHER -> IF a.n < 0 THEN NaN
                  ELSE Fin(ISqrt(Scaled(a, SqrtPrec * SqrtPrec)), SqrtPrec)

\* vectors are sequences of floats
RECURSIVE FSum(_)
FSum(s) ==
    IF Len(s) = 0 THEN Zero
    ELSE IF Len(s) = 1 THEN FAdd(s[1], Zero)
    ELSE LET h == Len(s) \div 2
         IN  FAdd(FSum(SubSeq(s, 1, h)), FSum(SubSeq(s, h + 1, Len(s))))

VMul(u, v) == [i \in 1..Len(u) |-> FMul(u[i], v[i])]
\* np.dot(matrix, vector): the matrix is a sequence of rows
MatVec(m, v) == [i \in 1..Len(m) |-> FSum(VMul(m[i], v))]

(***************************************************************************)
(* PortfolioMetrics (src/src/metrics.py)                                   *)
(***************************************************************************)
\* np.sum(weights * mean_returns)
portfolio_return(weights, mean_returns) == FSum(VMul(weights, mean_returns))

\* np.dot(weights.T, np.dot(cov_matrix, weights)): the quadratic form
QuadForm(weights, cov_matrix) == FSum(VMul(weights, MatVec(cov_matrix, weights)))

\* np.sqrt of the quadratic form, with no clamp and no check of its sign
portfolio_volatility(weights, cov_matrix) == FSqrt(QuadForm(weights, cov_matrix))

\* (portfolio_ret - risk_free_rate) / portfolio_vol, divided as it stands
sharpe_ratio(weights, mean_returns, cov_matrix, risk_free_rate) ==
    FDiv(FSub(portfolio_return(weights, mean_returns), risk_free_rate),
         portfolio_volatility(weights, cov_matrix))

\* (returns * weights).sum(axis=1): one weighted return per period (row)
calculate_portfolio_returns(weights, returns) ==
    [t \in 1..Len(returns) |-> FSum(VMul(returns[t], weights))]

\* (1 + returns).cumprod()
RECURSIVE CumProd(_, _)
CumProd(returns, t) ==
    IF t = 1 THEN FAdd(FOne, returns[1])
    ELSE FMul(CumProd(returns, t - 1), FAdd(FOne, returns[t]))

FMax(a, b) == IF FLt(a, b) THEN b ELSE a

\* cumulative.expanding().max()
RECURSIVE RunningMax(_, _)
RunningMax(c, t) == IF t = 1 THEN c[1] ELSE FMax(RunningMax(c, t - 1), c[t])

\* idxmin / idxmax: the first position, among 1..upto, that holds the extreme
ArgMin(s, upto) ==
    CHOOSE p \in 1..upto :
        /\ \A q \in 1..upto : FLe(s[p], s[q])
        /\ \A q \in 1..(p - 1) : ~FEq(s[q], s[p])
ArgMax(s, upto) ==
    CHOOSE p \in 1..upto :
        /\ \A q \in 1..upto : FLe(s[q], s[p])
        /\ \A q \in 1..(p - 1) : ~FEq(s[q], s[p])

\* The index of the series maximum_drawdown works on.  An ndarray is wrapped
\* in pd.Series and gets a RangeIndex: its labels are the positions 0..T-1,
\* and a slice [:label] of it is positional, so it excludes the label's row.
\* A series indexed by dates (a column or row sum of the return table) is
\* sliced by label, which includes the label's row.  Dates are written 1..T.
IndexKinds == {"array", "series"}
Label(index, p) == IF index = "array" THEN p - 1 ELSE p
\* how many leading rows cumulative[:trough_date] keeps, trough at position p
SliceUpTo(index, p) == IF index = "array" THEN p - 1 ELSE p

None == [kind |-> "none", val |-> 0]
Value(v) == [kind |-> "value", val |-> v]
Raised(e) == [kind |-> "exception", val |-> e]

\* maximum_drawdown: (max_dd, peak_date, trough_date), or the ValueError that
\* idxmax raises on an empty slice
maximum_drawdown(returns, index) ==
    LET T == Len(returns)
        cumulative == [t \in 1..T |-> CumProd(returns, t)]
        running_max == [t \in 1..T |-> RunningMax(cumulative, t)]
        drawdown == [t \in 1..T |->
                        FDiv(FSub(cumulative[t], running_max[t]), running_max[t])]
        trough == ArgMin(drawdown, T)
        max_dd == drawdown[trough]
        upto == SliceUpTo(index, trough)
    IN  IF upto = 0 THEN Raised("ValueError")
        ELSE Value([max_dd |-> max_dd,
                    peak_date |-> Label(index, ArgMax(cumulative, upto)),
                    trough_date |-> Label(index, trough)])

TradingDays == 252

\* pandas Series.std(): the sample standard deviation (ddof = 1), NaN for
\* fewer than two observations
SampleStd(s) ==
    IF Len(s) < 2 THEN NaN
    ELSE LET n == Len(s)
             mean == FDiv(FSum(s), Fin(n, 1))
             sq == [i \in 1..n |-> FMul(FSub(s[i], mean), FSub(s[i], mean))]
         IN  FSqrt(FDiv(FSum(sq), Fin(n - 1, 1)))

\* portfolio_returns[portfolio_returns < 0]
RECURSIVE Negatives(_)
Negatives(s) ==
    IF s = <<>> THEN <<>>
    ELSE IF FLt(Head(s), Zero) THEN <<Head(s)>> \o Negatives(Tail(s))
    ELSE Negatives(Tail(s))

sortino_ratio(weights, mean_returns, returns, risk_free_rate) ==
    LET portfolio_ret == FSum(VMul(weights, mean_returns))
        portfolio_returns == calculate_portfolio_returns(weights, returns)
        downside_returns == Negatives(portfolio_returns)
        downside_std == FMul(SampleStd(downside_returns), FSqrt(Fin(TradingDays, 1)))
    IN  IF FEq(downside_std, Zero) THEN PInf
        ELSE FDiv(FSub(portfolio_ret, risk_free_rate), downside_std)

\* calmar_ratio: portfolio_returns keeps the index of the `returns` table (a
\* RangeIndex, written "array", or dates, written "series"); what
\* maximum_drawdown raises is not caught
calmar_ratio(weights, mean_returns, returns, index) ==
    LET portfolio_ret == FSum(VMul(weights, mean_returns))
        portfolio_returns == calculate_portfolio_returns(weights, returns)
        dd == maximum_drawdown(portfolio_returns, index)
    IN  IF dd.kind = "exception" THEN dd
        ELSE IF FEq(dd.val.max_dd, Zero) THEN Value(PInf)
        ELSE Value(FDiv(portfolio_ret, FAbs(dd.val.max_dd)))

\* np.percentile(a, q), method 'linear': with the values sorted, the entry
\* at the virtual index (n - 1) * q / 100, interpolated between its two
\* neighbours
Range(s) == {s[i] : i \in 1..Len(s)}
Sorted(s, k) ==
    CHOOSE v \in Range(s) :
        /\ Cardinality({i \in 1..Len(s) : FLt(s[i], v)}) < k
        /\ Cardinality({i \in 1..Len(s) : FLe(s[i], v)}) >= k
Floor(a) == a.n \div a.d
percentile(a, q) ==
    LET n == Len(a)
        virtual == FDiv(FMul(Fin(n - 1, 1), q), Fin(100, 1))
        previous == Floor(virtual)
        next == IF previous + 1 > n - 1 THEN n - 1 ELSE previous + 1
        gamma == FSub(virtual, Fin(previous, 1))
        lower == Sorted(a, previous + 1)
        upper == Sorted(a, next + 1)
    IN  FAdd(lower, FMul(gamma, FSub(upper, lower)))

\* value_at_risk: the (1 - confidence_level) * 100 percentile
value_at_risk(weights, returns, confidence_level) ==
    LET portfolio_returns == calculate_portfolio_returns(weights, returns)
    IN  percentile(portfolio_returns, FMul(FSub(FOne, confidence_level), Fin(100, 1)))

\* s[s <= v]
RECURSIVE AtMost(_, _)
AtMost(s, v) ==
    IF Len(s) = 0 THEN <<>>
    ELSE IF Len(s) = 1 THEN (IF FLe(s[1], v) THEN s ELSE <<>>)
    ELSE LET h == Len(s) \div 2
         IN  AtMost(SubSeq(s, 1, h), v) \o AtMost(SubSeq(s, h + 1, Len(s)), v)
\* .mean(): NaN for an empty selection
Mean(s) == IF s = <<>> THEN NaN ELSE FDiv(FSum(s), Fin(Len(s), 1))

\* s[s < v]
RECURSIVE Below(_, _)
Below(s, v) ==
    IF Len(s) = 0 THEN <<>>
    ELSE IF Len(s) = 1 THEN (IF FLt(s[1], v) THEN s ELSE <<>>)
    ELSE LET h == Len(s) \div 2
         IN  Below(SubSeq(s, 1, h), v) \o Below(SubSeq(s, h + 1, Len(s)), v)
\* a variant that averages the returns strictly below the threshold; C14
\* does not survive it
cvar_strictly_below(weights, returns, confidence_level) ==
    LET portfolio_returns == calculate_portfolio_returns(weights, returns)
        var == value_at_risk(weights, returns, confidence_level)
    IN  Mean(Below(portfolio_returns, var))

\* conditional_value_at_risk: the mean of the returns at or below the VaR
conditional_value_at_risk(weights, returns, confidence_level) ==
    LET portfolio_returns == calculate_portfolio_returns(weights, returns)
        var == value_at_risk(weights, returns, confidence_level)
    IN  Mean(AtMost(portfolio_returns, var))

(***************************************************************************)
(* State.                                                                  *)
(*   m_in, m_out   a PortfolioMetrics call: the function and its arguments,*)
(*                 and what it returned or raised                          *)
(*   opt           the PortfolioOptimizer object (set at construction)     *)
(*   call          the arguments of the last optimizer operation           *)
(*   solver        what scipy's minimize did in that operation: how often  *)
(*                 it was invoked and how its last invocation ended        *)
(*   ret           what the operation returned or raised                   *)
(*   ef            generate_efficient_frontier: its position and locals    *)
(*   mc            the MonteCarloSimulator object and the portfolio its    *)
(*                 callers simulate                                        *)
(*   rng           the state of numpy's global random generator            *)
(*   sim           per caller, a simulate_portfolio call: its arguments,   *)
(*                 position, locals and result                             *)
(*   rb            the PortfolioRebalancer object, the arguments of a call *)
(*                 on it and what the call returned or raised              *)
(*   fp            a statistic taken of equal binary64 observations: the   *)
(*                 observations, the function and what it returned         *)
(***************************************************************************)
VARIABLES m_in, m_out, opt, call, solver, ret, ef, mc, rng, sim, rb, fp, dh, rp

metricVars == <<m_in, m_out>>
optVars == <<opt, call, solver, ret, ef>>
simVars == <<mc, rng, sim>>
rbVars == <<rb>>
fpVars == <<fp>>
dhVars == <<dh>>
rpVars == <<rp>>
vars == <<m_in, m_out, opt, call, solver, ret, ef, mc, rng, sim, rb, fp, dh, rp>>


(***************************************************************************)
(* Inputs of the metric functions.                                         *)
(***************************************************************************)
MaxYears == 2      \* time_horizon_years of a simulation: 0..MaxYears
MaxSim == 2        \* n_simulations of a simulation: 1..MaxSim
StreamLen == 3     \* states of the random generator: 0..StreamLen - 1
MaxTwentieths == 20  \* current weights handed to check_drift: 0/20..MaxTwentieths/20
MaxCopies == 3     \* equal binary64 observations of a statistic: 1..MaxCopies
MaxRows == 3        \* days of a downloaded price table: 1..MaxRows
MaxDownloads == 2   \* downloads of a data handler: 0..MaxDownloads
MaxTestYears == 3   \* horizons the retirement search tries: 1..MaxTestYears
MaxClock == 2       \* readings of the clock: 1..MaxClock
MaxObs == 100      \* observations of a long historical series: 1..MaxObs
MaxLow == 2        \* low returns at the end of a step series: 0..MaxLow
MaxM == 2          \* assets in a metric call: 1..MaxM

\* annualized mean returns 0%, 2%, 4%; the default risk-free rate is 2%
MuVals == {Fin(0, 1), Fin(1, 50), Fin(1, 25)}
DefaultRf == Fin(1, 50)
\* weights that sum to 1, in halves
HalfWeights(n) ==
    {w \in [1..n -> {Fin(0, 1), Fin(1, 2), Fin(1, 1)}] : FSum(w) = FOne}
\* symmetric matrices with the given diagonal and off-diagonal entries; the
\* ones with a zero variance and a non-zero covariance, or a covariance below
\* minus the variances, are not positive semi-definite
Pairs(n) == {p \in (1..n) \X (1..n) : p[1] < p[2]}
SymMatrices(n, diag, off) ==
    {[i \in 1..n |-> [j \in 1..n |->
          IF i = j THEN dg[i] ELSE IF i < j THEN up[<<i, j>>] ELSE up[<<j, i>>]]] :
       dg \in [1..n -> diag], up \in [Pairs(n) -> off]}
CovMatrices(n) ==
    SymMatrices(n, {Fin(0, 1), Fin(1, 25)}, {Fin(-1, 25), Fin(0, 1), Fin(1, 25)})
\* x'Cx >= 0 on a grid of test vectors: what positive semi-definite means here
TestVectors(n) == [1..n -> {Fin(-1, 1), Fin(0, 1), Fin(1, 2), Fin(1, 1)}]
IsPSD(c) == \A v \in TestVectors(Len(c)) : FLe(Zero, QuadForm(v, c))

\* realized per-period returns: a series (1-D) and a table (periods x assets)
SeriesVals == {Fin(-1, 2), Fin(0, 1), Fin(1, 10), Fin(1, 2)}
TableVals == {Fin(-1, 10), Fin(1, 20)}
Tables(n) == UNION {[1..T -> [1..n -> TableVals]] : T \in 1..MaxT}

NoArgs ==
    [fn |-> "none", weights |-> <<>>, mean_returns |-> <<>>, cov_matrix |-> <<>>,
     risk_free_rate |-> DefaultRf, returns |-> <<>>, index |-> "array"]

MetricsInputs(n) ==
    {[NoArgs EXCEPT !.fn = "portfolio_volatility", !.weights = w, !.cov_matrix = c] :
        w \in HalfWeights(n), c \in CovMatrices(n)}
    \cup
    {[NoArgs EXCEPT !.fn = "sharpe_ratio", !.weights = w, !.mean_returns = mu,
                    !.cov_matrix = c] :
        w \in HalfWeights(n), mu \in [1..n -> MuVals], c \in CovMatrices(n)}
    \cup
    {[NoArgs EXCEPT !.fn = "sortino_ratio", !.weights = w,
                    !.mean_returns = [i \in 1..n |-> mu], !.returns = r] :
        w \in HalfWeights(n), mu \in MuVals, r \in Tables(n)}
CalmarInputs(n) ==
    {[NoArgs EXCEPT !.fn = "calmar_ratio", !.weights = w,
                    !.mean_returns = [i \in 1..n |-> mu], !.returns = r, !.index = ix] :
        w \in HalfWeights(n), mu \in MuVals, r \in Tables(n), ix \in IndexKinds}
DrawdownInputs(T) ==
    {[NoArgs EXCEPT !.fn = "maximum_drawdown", !.returns = r, !.index = ix] :
        r \in [1..T -> SeriesVals], ix \in IndexKinds}

(***************************************************************************)
(* scipy.optimize.minimize(fun, x0, method='SLSQP', bounds, constraints),  *)
(* the external solver, by its contract.  An invocation ends in one of     *)
(* three ways:                                                             *)
(*   "raise"  an exception leaves minimize (always so when a lower bound   *)
(*            exceeds its upper bound);                                    *)
(*   "ok"     result.success: result.x satisfies the bounds and the        *)
(*            constraints and, for a convex objective, no feasible point   *)
(*            has a smaller objective; for a non-convex objective it is a  *)
(*            local solution, of which only feasibility is known;          *)
(*   "fail"   not result.success: result.x is the iterate the solver       *)
(*            stopped at, feasible or not.                                 *)
(* The points the solver may stop at are drawn from Candidates: the        *)
(* uniform vectors at the bounds and at x0, and the vectors that put one   *)
(* asset at a bound and split the rest equally.                            *)
(***************************************************************************)
Uniform(n, v) == [i \in 1..n |-> v]
Tilt(n, i, a) ==
    [j \in 1..n |-> IF j = i THEN a ELSE FDiv(FSub(FOne, a), Fin(n - 1, 1))]
Candidates(n, lo, hi, x0) ==
    {x0, Uniform(n, lo), Uniform(n, hi)}
    \cup (IF n = 1 THEN {} ELSE {Tilt(n, i, a) : i \in 1..n, a \in {lo, hi}})

InBounds(x, lo, hi) == \A i \in 1..Len(x) : FLe(lo, x[i]) /\ FLe(x[i], hi)

SolverRun(status, x) == [status |-> status, x |-> x]

(***************************************************************************)
(* PortfolioOptimizer (src/src/optimizer.py).  An optimizer o is the       *)
(* record of its fields.  allow_short is False and target_volatility is    *)
(* None, as in every call the repository makes.                            *)
(***************************************************************************)
Optimizer(mean_returns, cov_matrix, risk_free_rate) ==
    [mean_returns |-> mean_returns, cov_matrix |-> cov_matrix,
     risk_free_rate |-> risk_free_rate, n_assets |-> Len(mean_returns)]

\* |sum(x) - 1| < 1e-6: the equality constraint, to the solver's accuracy
SumsToOne(x) == FLt(FAbs(FSub(FSum(x), FOne)), Fin(1, 1000000))

\* _get_constraints: [{'type': 'eq', 'fun': lambda x: np.sum(x) - 1}]
GetConstraints(x) == SumsToOne(x)

\* the initial guess of the four solver-backed objectives
InitialGuess(o, min_weight) ==
    LET n == o.n_assets
        eq == Fin(1, n)
    IN  IF FLt(FOne, FMul(min_weight, Fin(n, 1)))
        THEN Uniform(n, eq)
        ELSE LET v == FMax(eq, min_weight)
                 total == FMul(Fin(n, 1), v)
             IN  Uniform(n, FDiv(v, total))

\* the metrics dictionary every optimize_* method builds at its weights
BasicMetrics(o, weights) ==
    [expected_return |-> portfolio_return(weights, o.mean_returns),
     volatility |-> portfolio_volatility(weights, o.cov_matrix),
     sharpe |-> sharpe_ratio(weights, o.mean_returns, o.cov_matrix, o.risk_free_rate)]

\* What an optimize_* method makes of a solver run: weights = result.x and
\* the metrics, whatever result.success says; an exception propagates.
Outcome(r, s) == [ret |-> r, solver |-> s]
Report(o, run) ==
    IF run.status = "raise"
    THEN Outcome(Raised("ValueError"), [calls |-> 1, status |-> "raise"])
    ELSE Outcome(Value([weights |-> run.x, metrics |-> BasicMetrics(o, run.x)]),
                 [calls |-> 1, status |-> run.status])

neg_sharpe(o, w) == FNeg(sharpe_ratio(w, o.mean_returns, o.cov_matrix, o.risk_free_rate))
portfolio_vol(o, w) == portfolio_volatility(w, o.cov_matrix)
neg_return(o, w) == FNeg(portfolio_return(w, o.mean_returns))
risk_parity_objective(o, w) ==
    LET vol == portfolio_volatility(w, o.cov_matrix)
        marginal_contrib == MatVec(o.cov_matrix, w)
        risk_contrib == [i \in 1..o.n_assets |-> FDiv(FMul(w[i], marginal_contrib[i]), vol)]
        target_risk == FDiv(vol, Fin(o.n_assets, 1))
    IN  FSum([i \in 1..o.n_assets |->
                 FMul(FSub(risk_contrib[i], target_risk), FSub(risk_contrib[i], target_risk))])

\* the objective functions handed to minimize, by name
Objective(o, fun, w) ==
    CASE fun = "neg_sharpe" -> neg_sharpe(o, w)
      [] fun = "portfolio_vol" -> portfolio_vol(o, w)
      [] fun = "neg_return" -> neg_return(o, w)
      [] fun = "risk_parity_objective" -> risk_parity_objective(o, w)
\* the volatility of a positive semi-definite form and a linear return are convex
Convex(fun) == fun \in {"portfolio_vol", "neg_return"}

\* the constraints handed to minimize: the weights sum to 1 and, for a point
\* of the efficient frontier, the portfolio return equals the target
NoTarget == None
Constraints(o, target, x) ==
    /\ GetConstraints(x)
    /\ target.kind = "value" => FEq(portfolio_return(x, o.mean_returns), target.val)

Minimize(o, fun, x0, lo, hi, target) ==
    LET n == Len(x0)
        feasible == {x \in Candidates(n, lo, hi, x0) :
                        InBounds(x, lo, hi) /\ Constraints(o, target, x)}
        value == [x \in feasible |-> Objective(o, fun, x)]
        optimal == IF Convex(fun)
                   THEN {x \in feasible : \A y \in feasible : ~FLt(value[y], value[x])}
                   ELSE feasible
    IN  {SolverRun("raise", <<>>)}
        \cup (IF FLt(hi, lo) THEN {}
              ELSE {SolverRun("ok", x) : x \in optimal}
                   \cup {SolverRun("fail", x) : x \in Candidates(n, lo, hi, x0)})

optimize_max_sharpe(o, min_weight, max_weight) ==
    {Report(o, run) :
        run \in Minimize(o, "neg_sharpe", InitialGuess(o, min_weight),
                         min_weight, max_weight, NoTarget)}

\* a variant that hands the solver the objective of optimize_max_return;
\* C5 does not survive it
min_volatility_maximising_return(o, min_weight, max_weight) ==
    {Report(o, run) :
        run \in Minimize(o, "neg_return", InitialGuess(o, min_weight),
                         min_weight, max_weight, NoTarget)}

optimize_min_volatility(o, min_weight, max_weight) ==
    {Report(o, run) :
        run \in Minimize(o, "portfolio_vol", InitialGuess(o, min_weight),
                         min_weight, max_weight, NoTarget)}

optimize_max_return(o, min_weight, max_weight) ==
    {Report(o, run) :
        run \in Minimize(o, "neg_return", InitialGuess(o, min_weight),
                         min_weight, max_weight, NoTarget)}

optimize_risk_parity(o, min_weight, max_weight) ==
    {Report(o, run) :
        run \in Minimize(o, "risk_parity_objective", InitialGuess(o, min_weight),
                         min_weight, max_weight, NoTarget)}

\* a variant that divides by N + 1; C4 does not survive it
equal_weight_off_by_one(o) ==
    LET weights == Uniform(o.n_assets, Fin(1, o.n_assets + 1))
    IN  {Outcome(Value([weights |-> weights, metrics |-> BasicMetrics(o, weights)]),
                 [calls |-> 0, status |-> "none"])}

\* the closed form: no solver, and no bounds either
optimize_equal_weight(o) ==
    LET weights == Uniform(o.n_assets, Fin(1, o.n_assets))
    IN  {Outcome(Value([weights |-> weights, metrics |-> BasicMetrics(o, weights)]),
                 [calls |-> 0, status |-> "none"])}

\* str.lower() on the objective names the model passes
Lower(objective) ==
    CASE objective = "MAX_SHARPE" -> "max_sharpe"
      [] objective = "Equal_Weight" -> "equal_weight"
      [] OTHER -> objective

\* optimize(objective, **kwargs): kwargs reach the solver-backed methods
\* only; equal_weight is called without them
optimize(o, objective, min_weight, max_weight) ==
    LET name == Lower(objective)
    IN  CASE name = "max_sharpe" -> optimize_max_sharpe(o, min_weight, max_weight)
          [] name = "min_volatility" -> optimize_min_volatility(o, min_weight, max_weight)
          [] name = "max_return" -> optimize_max_return(o, min_weight, max_weight)
          [] name = "risk_parity" -> optimize_risk_parity(o, min_weight, max_weight)
          [] name = "equal_weight" -> optimize_equal_weight(o)
          [] OTHER -> {Outcome(Raised("ValueError"), [calls |-> 0, status |-> "none"])}

(***************************************************************************)
(* Idle values: a component that a specification does not exercise stays   *)
(* at them.                                                                *)
(***************************************************************************)
NoOptimizer == Optimizer(<<>>, <<>>, DefaultRf)
NoCall ==
    [op |-> "none", via |-> "direct", objective |-> "none",
     min_weight |-> Zero, max_weight |-> FOne, num_assets |-> 0, flagged |-> FALSE]
NoSolver == [calls |-> 0, status |-> "none"]
EfIdle ==
    [pc |-> "idle", n_portfolios |-> 0, min_return |-> Zero, target_returns |-> <<>>,
     k |-> 0, returns |-> <<>>, volatilities |-> <<>>, sharpe_ratios |-> <<>>,
     log |-> <<>>]
OptimizerIdle ==
    opt = NoOptimizer /\ call = NoCall /\ solver = NoSolver /\ ret = None /\ ef = EfIdle
MetricsIdle == m_in = NoArgs /\ m_out = None
Callers == {1, 2}
NoSimulator == [mean_returns |-> <<>>, cov_matrix |-> <<>>, n_assets |-> 0,
                weights |-> <<>>, initial_investment |-> Zero]
NoSimulation ==
    [pc |-> "idle", time_horizon_years |-> 0, n_simulations |-> 0,
     annual_contribution |-> Zero, portfolio_return |-> Zero, portfolio_std |-> Zero,
     trial |-> 0, year |-> 0, value |-> Zero, final_values |-> <<>>, paths |-> <<>>,
     rng0 |-> 0, drawn |-> <<>>, result |-> None]
SimulatorIdle == mc = NoSimulator /\ rng = 0 /\ sim = [c \in Callers |-> NoSimulation]
NoRebalancer == [target_weights |-> <<>>, tickers |-> <<>>, drift_threshold |-> Zero,
                 n_assets |-> 0]
NoRebalancerCall == [op |-> "none", current_weights |-> <<>>, result |-> None]
RebalancerIdle == rb = [self |-> NoRebalancer, call |-> NoRebalancerCall]
NoTable == [loaded |-> FALSE, columns |-> <<>>, rows |-> <<>>]
NoDataHandler ==
    [tickers |-> <<>>, period_months |-> 0, risk_free_rate |-> Zero, prices |-> NoTable,
     returns |-> NoTable, mean_returns |-> None, cov_matrix |-> None]
NoDataCall == [op |-> "none", fetched |-> FALSE, loaded_before |-> FALSE, result |-> None]
DataHandlerIdle == dh = [self |-> NoDataHandler, call |-> NoDataCall, downloads |-> 0]
NoRetirement ==
    [pc |-> "idle", years_to_retirement |-> 0, annual_contribution |-> Zero,
     retirement_goal |-> Zero, n_simulations |-> 0, simulation |-> None,
     success_rate |-> Zero, shortfall |-> Zero, conf |-> 0, test_years |-> 0,
     tested |-> <<>>, years_needed |-> <<>>, result |-> None]
RetirementIdle == rp = NoRetirement

(***************************************************************************)
(* binary64.  The exact fractions above cannot show what rounding does to  *)
(* a sum and a quotient; where a claim depends on it, the mean is computed *)
(* on IEEE 754 doubles themselves.  A positive normal double is            *)
(* (hi * 2^26 + lo) * 2^e with a 53-bit significand, 2^26 <= hi < 2^27 and *)
(* 0 <= lo < 2^26; wider intermediate integers have the same two limbs.    *)
(* Every operation rounds to nearest, ties to even.                        *)
(***************************************************************************)
Half == 2^26
Top == 2^27
Double(e, hi, lo) == [e |-> e, hi |-> hi, lo |-> lo]
Wide(hi, lo) == [hi |-> hi + lo \div Half, lo |-> lo % Half]
WAdd(a, b) == Wide(a.hi + b.hi, a.lo + b.lo)
WTimes(a, k) == Wide(a.hi * k, a.lo * k)
\* quotient and remainder of a wide integer by a small one
WDiv(a, n) ==
    LET low == (a.hi % n) * Half + a.lo
    IN  [q |-> [hi |-> a.hi \div n, lo |-> low \div n], rem |-> low % n]
\* the bits a wide integer has beyond 53
Excess(a) == CHOOSE s \in 0..4 : a.hi \div 2^s < Top /\ (s = 0 \/ a.hi \div 2^(s - 1) >= Top)

\* the double nearest to a * 2^e (ties to even), where sticky says that a
\* itself was cut off from something larger
RoundNearestEven(a, sticky, e) ==
    LET s == Excess(a)
        d == WDiv(a, 2^s)
        half == 2^s \div 2
        up == /\ s > 0
              /\ \/ d.rem > half
                 \/ d.rem = half /\ (sticky \/ d.q.lo % 2 = 1)
        k == IF up THEN Wide(d.q.hi, d.q.lo + 1) ELSE d.q
    IN  IF k.hi = Top THEN Double(e + s + 1, Half, 0) ELSE Double(e + s, k.hi, k.lo)

\* a + b, for doubles at most three binades apart
Add64(a, b) ==
    LET big == IF a.e >= b.e THEN a ELSE b
        small == IF a.e >= b.e THEN b ELSE a
    IN  RoundNearestEven(WAdd(WTimes(big, 2^(big.e - small.e)), small), FALSE, small.e)

\* a / n, for a count n in 1..4
Div64(a, n) ==
    LET d == WDiv(WTimes(a, 8), n)
    IN  RoundNearestEven(d.q, d.rem # 0, a.e - 3)

Le64(a, b) ==
    \/ a.e < b.e
    \/ a.e = b.e /\ (a.hi < b.hi \/ (a.hi = b.hi /\ a.lo <= b.lo))

\* np.sum and np.mean of a short array: the elements added in order, the sum
\* divided by the count
RECURSIVE Sum64(_)
Sum64(s) == IF Len(s) = 1 THEN s[1] ELSE Add64(Sum64(SubSeq(s, 1, Len(s) - 1)), s[Len(s)])

Mean64(s) == Div64(Sum64(s), Len(s))

\* np.percentile of observations that are all equal: the two neighbours a and
\* b of the virtual index are the same double, and a + (b - a) * t = a + 0 = a
percentile64(a, q) == a[1]

AtMost64(s, v) == SelectSeq(s, LAMBDA x : Le64(x, v))

Doubles ==
    {Double(-56, 107374182, 26843546),   \* 0.1
     Double(-55, 107374182, 26843546),   \* 0.2
     Double(-54, 80530636, 53687091),   \* 0.3
     Double(-54, 107374182, 26843546),   \* 0.4
     Double(-53, 80530636, 53687091),   \* 0.6
     Double(-53, 93952409, 40265318),   \* 0.7
     Double(-53, 107374182, 26843546),   \* 0.8
     Double(-53, 120795955, 13421773),   \* 0.9
     Double(-57, 107374182, 26843546),   \* 0.05
     Double(-59, 85899345, 61740155),   \* 0.01
     Double(-52, 67108864, 0),   \* 1.0
     Double(-52, 73819750, 26843546),   \* 1.1
     Double(-46, 104857600, 0),   \* 100.0
     Double(-46, 104962457, 40265318),   \* 100.1
     Double(-43, 131085107, 13421773),   \* 1000.1
     Double(-36, 102400000, 0),   \* 100000.0
     Double(-36, 102400102, 26843546),   \* 100000.1
     Double(-37, 102400614, 26843546)}   \* 50000.3

NoBinary64 == [values |-> <<>>, op |-> "none", result |-> None]
Binary64Idle == fp = NoBinary64

(***************************************************************************)
(* The metric functions as operations: each applies the function to the    *)
(* arguments drawn at Init.                                                *)
(***************************************************************************)
MetricsInit ==
    /\ \/ \E n \in 1..MaxM : m_in \in MetricsInputs(n) \cup CalmarInputs(n)
       \/ \E T \in 1..MaxT : m_in \in DrawdownInputs(T)
    /\ m_out = None
    /\ OptimizerIdle /\ SimulatorIdle /\ RebalancerIdle /\ Binary64Idle
    /\ DataHandlerIdle /\ RetirementIdle

CallVolatility ==
    /\ m_in.fn = "portfolio_volatility" /\ m_out = None
    /\ m_out' = Value(portfolio_volatility(m_in.weights, m_in.cov_matrix))
    /\ UNCHANGED <<m_in, optVars, simVars, rbVars, fpVars, dhVars, rpVars>>

CallSharpe ==
    /\ m_in.fn = "sharpe_ratio" /\ m_out = None
    /\ m_out' = Value(sharpe_ratio(m_in.weights, m_in.mean_returns,
                                   m_in.cov_matrix, m_in.risk_free_rate))
    /\ UNCHANGED <<m_in, optVars, simVars, rbVars, fpVars, dhVars, rpVars>>

CallSortino ==
    /\ m_in.fn = "sortino_ratio" /\ m_out = None
    /\ m_out' = Value(sortino_ratio(m_in.weights, m_in.mean_returns,
                                    m_in.returns, m_in.risk_free_rate))
    /\ UNCHANGED <<m_in, optVars, simVars, rbVars, fpVars, dhVars, rpVars>>

CallMaxDrawdown ==
    /\ m_in.fn = "maximum_drawdown" /\ m_out = None
    /\ m_out' = maximum_drawdown(m_in.returns, m_in.index)
    /\ UNCHANGED <<m_in, optVars, simVars, rbVars, fpVars, dhVars, rpVars>>

CallCalmar ==
    /\ m_in.fn = "calmar_ratio" /\ m_out = None
    /\ m_out' = calmar_ratio(m_in.weights, m_in.mean_returns, m_in.returns, m_in.index)
    /\ UNCHANGED <<m_in, optVars, simVars, rbVars, fpVars, dhVars, rpVars>>

(***************************************************************************)
(* value_at_risk and conditional_value_at_risk on historical series: long  *)
(* single-asset series (a falling ramp of distinct returns, and a step of  *)
(* k low returns after T - k high ones) and short tables of several assets.*)
(***************************************************************************)
Ramp(T) == [t \in 1..T |-> <<Fin(T - 2 * t, 1000)>>]
Step(T, k) == [t \in 1..T |-> <<IF t > T - k THEN Fin(-1, 10) ELSE Fin(1, 20)>>]
ConfidenceLevels == {Fin(1, 20), Fin(1, 2), Fin(19, 20)}
RiskRows(n) ==
    {[i \in 1..n |-> v] : v \in TableVals}
    \cup {[i \in 1..n |-> IF i = 1 THEN Fin(-1, 10) ELSE Fin(1, 20)]}
RiskArgs(fn, w, r, c) ==
    [fn |-> fn, weights |-> w, mean_returns |-> <<>>, cov_matrix |-> <<>>,
     risk_free_rate |-> DefaultRf, returns |-> r, index |-> "series",
     confidence_level |-> c]
RiskTables ==
    {[weights |-> <<FOne>>, returns |-> r] :
        r \in UNION {{Ramp(T)} \cup {Step(T, k) : k \in 0..(IF T < MaxLow THEN T ELSE MaxLow)} :
                       T \in 1..MaxObs}}
    \cup UNION {{[weights |-> w, returns |-> r] :
                    w \in HalfWeights(n), r \in [1..T -> RiskRows(n)]} :
                 n \in 1..MaxM, T \in 1..MaxT}
RiskInit ==
    /\ \E fn \in {"value_at_risk", "conditional_value_at_risk"},
          t \in RiskTables, c \in ConfidenceLevels :
          m_in = RiskArgs(fn, t.weights, t.returns, c)
    /\ m_out = None
    /\ OptimizerIdle /\ SimulatorIdle /\ RebalancerIdle /\ Binary64Idle
    /\ DataHandlerIdle /\ RetirementIdle

CallVaR ==
    /\ m_in.fn = "value_at_risk" /\ m_out = None
    /\ m_out' = Value(value_at_risk(m_in.weights, m_in.returns, m_in.confidence_level))
    /\ UNCHANGED <<m_in, optVars, simVars, rbVars, fpVars, dhVars, rpVars>>

CallCVaR ==
    /\ m_in.fn = "conditional_value_at_risk" /\ m_out = None
    /\ m_out' = Value(conditional_value_at_risk(m_in.weights, m_in.returns,
                                                m_in.confidence_level))
    /\ UNCHANGED <<m_in, optVars, simVars, rbVars, fpVars, dhVars, rpVars>>

RiskNext ==
    \/ CallVaR
    \/ CallCVaR

SpecRisk == RiskInit /\ [][RiskNext]_vars

MetricsNext ==
    \/ CallCalmar
    \/ CallVolatility
    \/ CallSharpe
    \/ CallSortino
    \/ CallMaxDrawdown

SpecMetrics == MetricsInit /\ [][MetricsNext]_vars

(***************************************************************************)
(* The optimizer's operations.  Init constructs the optimizer from one of  *)
(* a few data sets per number of assets (all positive semi-definite).      *)
(***************************************************************************)
ConstCov(n, variance, covariance) ==
    [i \in 1..n |-> [j \in 1..n |-> IF i = j THEN variance ELSE covariance]]
Datasets(n) ==
    { \* equal means, uncorrelated assets of equal variance
      Optimizer(Uniform(n, Fin(1, 25)), ConstCov(n, Fin(1, 25), Zero), DefaultRf),
      \* rising means and variances, a common covariance, no risk-free return
      Optimizer([i \in 1..n |-> Fin(i, 50)],
                [i \in 1..n |-> [j \in 1..n |->
                    IF i = j THEN Fin(i * i, 25) ELSE Fin(1, 100)]],
                Zero),
      \* means equal to the risk-free rate, perfectly correlated assets
      Optimizer(Uniform(n, Fin(1, 50)), ConstCov(n, Fin(1, 25), Fin(1, 25)), DefaultRf),
      \* riskless assets
      Optimizer(Uniform(n, Fin(1, 25)), ConstCov(n, Zero, Zero), DefaultRf) }

OptimizerInit ==
    /\ opt \in UNION {Datasets(n) : n \in 1..MaxN}
    /\ call = NoCall /\ solver = NoSolver /\ ret = None /\ ef = EfIdle
    /\ MetricsIdle /\ SimulatorIdle /\ RebalancerIdle /\ Binary64Idle
    /\ DataHandlerIdle /\ RetirementIdle

\* The optimizer's methods assign no field of self, so a behaviour is one
\* operation on a freshly constructed optimizer.
Fresh == call.op = "none"

ObjectiveNames ==
    {"max_sharpe", "min_volatility", "max_return", "risk_parity", "equal_weight",
     "Equal_Weight", "bogus"}
DirectMin == {Zero, Fin(1, 10), Fin(3, 5)}
DirectMax == {Fin(1, 5), FOne}

\* optimizer.optimize(objective, min_weight=.., max_weight=..), called directly
CallOptimize ==
    /\ Fresh
    /\ \E objective \in ObjectiveNames, lo \in DirectMin, hi \in DirectMax :
         \E out \in optimize(opt, objective, lo, hi) :
            /\ call' = [NoCall EXCEPT !.op = "optimize", !.objective = objective,
                                      !.min_weight = lo, !.max_weight = hi,
                                      !.num_assets = opt.n_assets]
            /\ ret' = out.ret
            /\ solver' = out.solver
    /\ UNCHANGED <<opt, ef, metricVars, simVars, rbVars, fpVars, dhVars, rpVars>>

(***************************************************************************)
(* The front end (src/app.py, main): the sidebar's position limits, then   *)
(* the "Run Optimization" button.  num_assets is the number of tickers     *)
(* typed in; the optimizer is built from the tickers data was found for,   *)
(* which may be fewer.  The feasibility message is display only: nothing   *)
(* keeps the button from running the optimization.                         *)
(***************************************************************************)
SliderMax == {p \in 10..50 : p % 5 = 0}
SliderMin == {p \in 0..20 : p % 2 = 0}
Percent(p) == Fin(p, 100)
\* the slider positions the model visits: both ends and the default
SidebarConfigs ==
    {[use_constraints |-> TRUE, max_weight |-> Percent(mx), min_weight |-> Percent(mn)] :
        mx \in SliderMax \cap {10, 20, 50}, mn \in SliderMin \cap {0, 8, 20}}
    \cup {[use_constraints |-> FALSE, max_weight |-> FOne, min_weight |-> Zero]}
ObjectiveMap == {"max_sharpe", "min_volatility", "max_return", "risk_parity", "equal_weight"}

\* st.error("Infeasible ...") is shown: min_weight > 0 and min_total > 100
InfeasibleShown(min_weight, num_assets) ==
    /\ FLt(Zero, min_weight)
    /\ FLt(Fin(100, 1), FMul(FMul(min_weight, Fin(num_assets, 1)), Fin(100, 1)))

AppRun ==
    /\ Fresh
    /\ \E cfg \in SidebarConfigs, missing \in {0, 1}, objective \in ObjectiveMap :
         LET num_assets == opt.n_assets + missing
             flagged == cfg.use_constraints /\ InfeasibleShown(cfg.min_weight, num_assets)
         IN  \E out \in optimize(opt, objective, cfg.min_weight, cfg.max_weight) :
                /\ call' = [op |-> "optimize", via |-> "app", objective |-> objective,
                            min_weight |-> cfg.min_weight, max_weight |-> cfg.max_weight,
                            num_assets |-> num_assets, flagged |-> flagged]
                /\ ret' = out.ret
                /\ solver' = out.solver
    /\ UNCHANGED <<opt, ef, metricVars, simVars, rbVars, fpVars, dhVars, rpVars>>

(***************************************************************************)
(* generate_efficient_frontier(n_portfolios), step by step: the two        *)
(* solves that fix the range of target returns, then one sub-solve per     *)
(* target, then the return.                                                *)
(***************************************************************************)
\* np.linspace(start, stop, num)
Linspace(start, stop, num) ==
    [j \in 1..num |->
        IF num = 1 THEN start
        ELSE FAdd(start, FMul(Fin(j - 1, num - 1), FSub(stop, start)))]

\* lines 296 and 299: min_vol_weights and min_return
FrontierBegin ==
    /\ Fresh
    /\ \E K \in 0..MaxK : \E out \in optimize_min_volatility(opt, Zero, FOne) :
         /\ call' = [NoCall EXCEPT !.op = "generate_efficient_frontier",
                                   !.num_assets = opt.n_assets]
         /\ solver' = out.solver
         /\ IF out.ret.kind = "exception"
            THEN ret' = out.ret /\ ef' = [EfIdle EXCEPT !.pc = "done", !.n_portfolios = K]
            ELSE /\ ret' = None
                 /\ ef' = [EfIdle EXCEPT
                             !.pc = "max_ret", !.n_portfolios = K,
                             !.min_return = portfolio_return(out.ret.val.weights,
                                                             opt.mean_returns)]
    /\ UNCHANGED <<opt, metricVars, simVars, rbVars, fpVars, dhVars, rpVars>>

\* lines 297, 300 and 303: max_ret_weights, max_return and target_returns
FrontierMaxReturn ==
    /\ ef.pc = "max_ret"
    /\ \E out \in optimize_max_return(opt, Zero, FOne) :
         /\ solver' = [calls |-> solver.calls + 1, status |-> out.solver.status]
         /\ IF out.ret.kind = "exception"
            THEN ret' = out.ret /\ ef' = [ef EXCEPT !.pc = "done"]
            ELSE /\ ret' = None
                 /\ ef' = [ef EXCEPT
                             !.pc = "loop", !.k = 1,
                             !.target_returns =
                                 Linspace(ef.min_return,
                                          portfolio_return(out.ret.val.weights,
                                                           opt.mean_returns),
                                          ef.n_portfolios)]
    /\ UNCHANGED <<opt, call, metricVars, simVars, rbVars, fpVars, dhVars, rpVars>>

\* a variant of the loop body that appends the volatility outside the
\* `if result.success`; C6 does not survive it
FrontierBody_unguarded_append(e, o, run) ==
    LET logged == [e EXCEPT !.k = e.k + 1, !.log = Append(e.log, run.status)]
    IN  IF run.status = "ok"
        THEN [logged EXCEPT
                !.returns = Append(e.returns, portfolio_return(run.x, o.mean_returns)),
                !.volatilities = Append(e.volatilities,
                                        portfolio_volatility(run.x, o.cov_matrix)),
                !.sharpe_ratios = Append(e.sharpe_ratios,
                                         sharpe_ratio(run.x, o.mean_returns, o.cov_matrix,
                                                      o.risk_free_rate))]
        ELSE IF run.status = "fail"
        THEN [logged EXCEPT
                !.volatilities = Append(e.volatilities,
                                        portfolio_volatility(run.x, o.cov_matrix))]
        ELSE logged

\* the body of the loop over target_returns, for the run of its sub-solve:
\* a point is appended to the three lists when result.success, and the bare
\* except skips the target when anything raises
FrontierBody(e, o, run) ==
    LET logged == [e EXCEPT !.k = e.k + 1, !.log = Append(e.log, run.status)]
    IN  IF run.status = "ok"
        THEN [logged EXCEPT
                !.returns = Append(e.returns, portfolio_return(run.x, o.mean_returns)),
                !.volatilities = Append(e.volatilities,
                                        portfolio_volatility(run.x, o.cov_matrix)),
                !.sharpe_ratios = Append(e.sharpe_ratios,
                                         sharpe_ratio(run.x, o.mean_returns, o.cov_matrix,
                                                      o.risk_free_rate))]
        ELSE logged

FrontierTarget ==
    /\ ef.pc = "loop" /\ ef.k <= ef.n_portfolios
    /\ \E run \in Minimize(opt, "portfolio_vol", Uniform(opt.n_assets, Fin(1, opt.n_assets)),
                           Zero, FOne, Value(ef.target_returns[ef.k])) :
         /\ ef' = FrontierBody(ef, opt, run)
         /\ solver' = [calls |-> solver.calls + 1, status |-> run.status]
    /\ UNCHANGED <<opt, call, ret, metricVars, simVars, rbVars, fpVars, dhVars, rpVars>>

\* line 341: the three lists as arrays
FrontierReturn ==
    /\ ef.pc = "loop" /\ ef.k > ef.n_portfolios
    /\ ret' = Value([returns |-> ef.returns, volatilities |-> ef.volatilities,
                     sharpe_ratios |-> ef.sharpe_ratios])
    /\ ef' = [ef EXCEPT !.pc = "done"]
    /\ UNCHANGED <<opt, call, solver, metricVars, simVars, rbVars, fpVars, dhVars, rpVars>>

\* optimize, called directly and from the front end
OptimizerNext ==
    \/ CallOptimize
    \/ AppRun

SpecOptimizer == OptimizerInit /\ [][OptimizerNext]_vars

\* generate_efficient_frontier
FrontierNext ==
    \/ FrontierBegin
    \/ FrontierMaxReturn
    \/ FrontierTarget
    \/ FrontierReturn

\* the frontier is generated for optimizers of at most MaxF assets
FrontierInit == OptimizerInit /\ opt.n_assets <= MaxF

SpecFrontier == FrontierInit /\ [][FrontierNext]_vars

(***************************************************************************)
(* MonteCarloSimulator (src/src/monte_carlo.py).  simulate_portfolio draws *)
(* from numpy's global generator, np.random: a deterministic stream whose  *)
(* state every draw advances, shared by every caller in the process.  The  *)
(* generator is modelled by its contract: a state in 0..StreamLen - 1, the *)
(* standard normal deviate it yields in that state, and the next state.    *)
(* One draw is one step; two callers' steps may interleave.                *)
(***************************************************************************)
StandardNormal(p) == Fin((p % 3) - 1, 1)
Advance(p) == (p + 1) % StreamLen

\* a variant that ignores the scale; C17 does not survive it
normal_of_unit_scale(p, loc, scale) == FAdd(loc, StandardNormal(p))

\* np.random.normal(loc, scale) in generator state p: loc + scale * deviate
normal(p, loc, scale) == FAdd(loc, FMul(scale, StandardNormal(p)))

\* a variant that adds the contribution before the growth; C18 does not
\* survive it
grow_after_contribution(value, annual_return, annual_contribution) ==
    FMul(FAdd(value, annual_contribution), FAdd(FOne, annual_return))

\* line 63: value * (1 + annual_return) + annual_contribution
Grow(value, annual_return, annual_contribution) ==
    FAdd(FMul(value, FAdd(FOne, annual_return)), annual_contribution)

\* lines 68-97: the dictionary simulate_portfolio returns
Statistics(s, initial_investment) ==
    LET fv == s.final_values
        var_95 == percentile(fv, Fin(5, 1))
    IN  [final_values |-> fv, paths |-> s.paths,
         percentiles |-> [p10 |-> percentile(fv, Fin(10, 1)),
                          p25 |-> percentile(fv, Fin(25, 1)),
                          p50 |-> percentile(fv, Fin(50, 1)),
                          p75 |-> percentile(fv, Fin(75, 1)),
                          p90 |-> percentile(fv, Fin(90, 1))],
         expected_value |-> Mean(fv),
         prob_loss |-> FDiv(Fin(Len(Below(fv, initial_investment)), 1),
                            Fin(s.n_simulations, 1)),
         var_95 |-> var_95,
         cvar_95 |-> Mean(AtMost(fv, var_95)),
         portfolio_return |-> s.portfolio_return,
         portfolio_std |-> s.portfolio_std]

\* the simulators and the portfolio (weights, initial investment) their
\* callers simulate; the variances are squares, so that the portfolio standard
\* deviation is exact at every SqrtPrec
Simulator(mean_returns, cov_matrix, weights) ==
    [mean_returns |-> mean_returns, cov_matrix |-> cov_matrix,
     n_assets |-> Len(mean_returns), weights |-> weights,
     initial_investment |-> Fin(100, 1)]
Simulators ==
    {Simulator(<<Zero>>, <<<<Zero>>>>, <<FOne>>),
     Simulator(<<Fin(1, 10)>>, <<<<Zero>>>>, <<FOne>>),
     Simulator(<<Fin(1, 10)>>, <<<<FOne>>>>, <<FOne>>)}
    \cup {Simulator(<<Zero, Fin(1, 10)>>,
                    <<<<Zero, Zero>>, <<Zero, Fin(4, 1)>>>>, w) : w \in HalfWeights(2)}
Contributions == {Zero, Fin(10, 1)}

SimInit ==
    /\ mc \in Simulators
    /\ rng \in 0..(StreamLen - 1)
    /\ sim = [c \in Callers |-> NoSimulation]
    /\ MetricsIdle /\ OptimizerIdle /\ RebalancerIdle /\ Binary64Idle
    /\ DataHandlerIdle /\ RetirementIdle

\* lines 46-56: the portfolio statistics, the zeroed arrays with column 0 of
\* paths set, and the first trial's value.  Callers are numbered in the
\* order of their calls.
SimStart(c) ==
    /\ sim[c].pc = "idle"
    /\ \A d \in Callers : d < c => sim[d].pc # "idle"
    /\ \E years \in 0..MaxYears, n \in 1..MaxSim, contribution \in Contributions :
         sim' = [sim EXCEPT ![c] =
                   [NoSimulation EXCEPT
                      !.pc = "loop", !.time_horizon_years = years,
                      !.n_simulations = n, !.annual_contribution = contribution,
                      !.portfolio_return = portfolio_return(mc.weights, mc.mean_returns),
                      !.portfolio_std = FSqrt(QuadForm(mc.weights, mc.cov_matrix)),
                      !.trial = 1, !.year = 1, !.value = mc.initial_investment,
                      !.final_values = [t \in 1..n |-> Zero],
                      !.paths = [t \in 1..n |-> [y \in 1..(years + 1) |->
                                    IF y = 1 THEN mc.initial_investment ELSE Zero]],
                      !.rng0 = rng]]
    /\ UNCHANGED <<mc, rng, rb, fpVars, optVars, metricVars, dhVars, rpVars>>

\* a call starts while no other call is running
SequentialStart(c) ==
    /\ \A d \in Callers : sim[d].pc # "loop"
    /\ SimStart(c)

\* lines 58-64: one year of one trial, with its draw from the generator
SimYear(c) ==
    LET s == sim[c]
    IN  /\ s.pc = "loop" /\ s.trial <= s.n_simulations /\ s.year <= s.time_horizon_years
        /\ LET annual_return == normal(rng, s.portfolio_return, s.portfolio_std)
               value == Grow(s.value, annual_return, s.annual_contribution)
           IN  sim' = [sim EXCEPT ![c] =
                         [s EXCEPT !.value = value,
                                   !.paths[s.trial][s.year + 1] = value,
                                   !.year = s.year + 1,
                                   !.drawn = Append(s.drawn, annual_return)]]
        /\ rng' = Advance(rng)
        /\ UNCHANGED <<mc, rb, fpVars, optVars, metricVars, dhVars, rpVars>>

\* line 66, and line 56 of the next trial
SimEndTrial(c) ==
    LET s == sim[c]
    IN  /\ s.pc = "loop" /\ s.trial <= s.n_simulations /\ s.year > s.time_horizon_years
        /\ sim' = [sim EXCEPT ![c] =
                     [s EXCEPT !.final_values[s.trial] = s.value,
                               !.trial = s.trial + 1, !.year = 1,
                               !.value = mc.initial_investment]]
        /\ UNCHANGED <<mc, rng, rb, fpVars, optVars, metricVars, dhVars, rpVars>>

\* lines 68-97: the statistics and the return
SimFinish(c) ==
    LET s == sim[c]
    IN  /\ s.pc = "loop" /\ s.trial > s.n_simulations
        /\ sim' = [sim EXCEPT ![c] =
                     [s EXCEPT !.pc = "done",
                               !.result = Value(Statistics(s, mc.initial_investment))]]
        /\ UNCHANGED <<mc, rng, rb, fpVars, optVars, metricVars, dhVars, rpVars>>

\* np.random.seed(seed), which a caller may run between two calls
Reseed ==
    /\ \E c \in Callers : sim[c].pc = "done"
    /\ \A c \in Callers : sim[c].pc # "loop"
    /\ \E seed \in 0..(StreamLen - 1) : rng' = seed /\ seed # rng
    /\ UNCHANGED <<mc, sim, rb, fpVars, optVars, metricVars, dhVars, rpVars>>

\* calls one after the other
SimNext ==
    \/ \E c \in Callers : SequentialStart(c)
    \/ \E c \in Callers : SimYear(c)
    \/ \E c \in Callers : SimEndTrial(c)
    \/ \E c \in Callers : SimFinish(c)
    \/ Reseed

SpecMonteCarlo == SimInit /\ [][SimNext]_vars

\* calls of two threads, interleaved draw by draw
ConcurrentNext ==
    \/ \E c \in Callers : SimStart(c)
    \/ \E c \in Callers : SimYear(c)
    \/ \E c \in Callers : SimEndTrial(c)
    \/ \E c \in Callers : SimFinish(c)

SpecConcurrent == SimInit /\ [][ConcurrentNext]_vars

(***************************************************************************)
(* PortfolioRebalancer (src/src/rebalancer.py).  rb.self is the object     *)
(* (target weights, drift threshold, number of assets); rb.call is the     *)
(* last call made on it, with its result.                                  *)
(***************************************************************************)
\* a variant without the zero-total check of lines 44-45: numpy's division by
\* zero gives non-finite weights; C21 does not survive it
current_weights_unchecked(self, current_values) ==
    LET total_value == FSum(current_values)
    IN  Value([i \in 1..Len(current_values) |-> FDiv(current_values[i], total_value)])

\* lines 42-47: the ValueError on a zero total, else values / total
calculate_current_weights(self, current_values) ==
    LET total_value == FSum(current_values)
    IN  IF FEq(total_value, Zero) THEN Raised("ValueError")
        ELSE Value([i \in 1..Len(current_values) |-> FDiv(current_values[i], total_value)])

\* a variant that also triggers on a drift equal to the threshold; C20 does
\* not survive it
check_drift_at_threshold(self, current_weights) ==
    LET weight_diff == [i \in 1..Len(current_weights) |->
                           FAbs(FSub(current_weights[i], self.target_weights[i]))]
    IN  [needs_rebalancing |-> \E i \in 1..Len(weight_diff) :
                                   FLe(self.drift_threshold, weight_diff[i]),
         weight_diff |-> weight_diff]

\* lines 59-62: (needs_rebalancing, weight_diff)
check_drift(self, current_weights) ==
    LET weight_diff == [i \in 1..Len(current_weights) |->
                           FAbs(FSub(current_weights[i], self.target_weights[i]))]
    IN  [needs_rebalancing |-> \E i \in 1..Len(weight_diff) :
                                   FLt(self.drift_threshold, weight_diff[i]),
         weight_diff |-> weight_diff]

\* the rebalancers, the position values and the weight vectors of the calls
Rebalancer(target_weights, drift_threshold) ==
    [target_weights |-> target_weights,
     tickers |-> [i \in 1..Len(target_weights) |-> i],
     drift_threshold |-> drift_threshold,
     n_assets |-> Len(target_weights)]
TargetWeights == {<<FOne>>, <<Fin(1, 2), Fin(1, 2)>>, <<Fin(3, 5), Fin(2, 5)>>}
DriftThresholds == {Zero, Fin(1, 20), Fin(3, 10)}
PositionValues == {Zero, Fin(20, 1), Fin(50, 1), Fin(80, 1)}
Vectors(n, S) == {v \in [1..n -> S] : TRUE}
Twentieths == {Fin(k, 20) : k \in 0..MaxTwentieths}

RebalancerInit ==
    /\ \E t \in TargetWeights, d \in DriftThresholds :
           rb = [self |-> Rebalancer(t, d), call |-> NoRebalancerCall]
    /\ MetricsIdle /\ OptimizerIdle /\ SimulatorIdle /\ Binary64Idle
    /\ DataHandlerIdle /\ RetirementIdle

\* check_drift called with a weight vector
CallCheckDrift ==
    /\ \E w \in Vectors(rb.self.n_assets, Twentieths) :
           rb' = [rb EXCEPT !.call = [op |-> "check_drift", current_weights |-> w,
                                      result |-> Value(check_drift(rb.self, w))]]
    /\ UNCHANGED <<metricVars, optVars, simVars, fpVars, dhVars, rpVars>>

\* lines 157-158 and 229-230: check_drift called with the weights that
\* calculate_current_weights made of the position values; its ValueError
\* propagates
CallCheckDriftOfValues ==
    /\ \E v \in Vectors(rb.self.n_assets, PositionValues) :
           LET w == calculate_current_weights(rb.self, v)
           IN  rb' = [rb EXCEPT !.call =
                        IF w.kind = "exception"
                        THEN [op |-> "check_drift", current_weights |-> <<>>, result |-> w]
                        ELSE [op |-> "check_drift", current_weights |-> w.val,
                              result |-> Value(check_drift(rb.self, w.val))]]
    /\ UNCHANGED <<metricVars, optVars, simVars, fpVars, dhVars, rpVars>>

RebalancerNext == CallCheckDrift \/ CallCheckDriftOfValues

SpecRebalancer == RebalancerInit /\ [][RebalancerNext]_vars

(***************************************************************************)
(* The tail statistics on binary64 observations that are all equal: the    *)
(* returns of conditional_value_at_risk (one asset of weight 1.0, so the   *)
(* portfolio returns are the returns), and the final values of             *)
(* simulate_portfolio over no years (every final value is the initial      *)
(* investment, and nothing is drawn).                                      *)
(***************************************************************************)
Copies(v, n) == [i \in 1..n |-> v]

Binary64Init ==
    /\ \E v \in Doubles, n \in 1..MaxCopies :
           fp = [NoBinary64 EXCEPT !.values = Copies(v, n)]
    /\ MetricsIdle /\ OptimizerIdle /\ SimulatorIdle /\ RebalancerIdle
    /\ DataHandlerIdle /\ RetirementIdle

\* metrics.py lines 194-198: the VaR, and the mean of the returns at or below it
CallCVaR64 ==
    /\ fp.op = "none"
    /\ LET var == percentile64(fp.values, 5)
       IN  fp' = [fp EXCEPT !.op = "conditional_value_at_risk",
                            !.result = Value([var |-> var,
                                              cvar |-> Mean64(AtMost64(fp.values, var))])]
    /\ UNCHANGED <<metricVars, optVars, simVars, rbVars, dhVars, rpVars>>

\* monte_carlo.py lines 69-85 with time_horizon_years = 0: the percentiles of
\* the final values and the mean of those at or below the 5th
Simulate64 ==
    /\ fp.op = "none"
    /\ LET var_95 == percentile64(fp.values, 5)
       IN  fp' = [fp EXCEPT !.op = "simulate_portfolio",
                            !.result = Value([p10 |-> percentile64(fp.values, 10),
                                              p25 |-> percentile64(fp.values, 25),
                                              p50 |-> percentile64(fp.values, 50),
                                              p75 |-> percentile64(fp.values, 75),
                                              p90 |-> percentile64(fp.values, 90),
                                              var_95 |-> var_95,
                                              cvar_95 |-> Mean64(AtMost64(fp.values, var_95))])]
    /\ UNCHANGED <<metricVars, optVars, simVars, rbVars, dhVars, rpVars>>

Binary64Next == CallCVaR64 \/ Simulate64

SpecBinary64 == Binary64Init /\ [][Binary64Next]_vars

(***************************************************************************)
(* PortfolioRebalancer: the trade tables, their summary, the minimal       *)
(* rebalancing and the monitor.  A table is a record of columns, each a    *)
(* sequence over the assets in ticker order.                               *)
(***************************************************************************)
\* lines 102-104 and 206-210: the label of a number of shares
Action(x) == IF FLt(Zero, x) THEN "BUY" ELSE IF FLt(x, Zero) THEN "SELL" ELSE "HOLD"

\* Series.fillna(0)
FillNa(x) == IF IsNaN(x) THEN Zero ELSE x

\* lines 76-109
calculate_rebalancing_trades(self, current_values, current_prices) ==
    LET total_value == FSum(current_values)
        current_weights == calculate_current_weights(self, current_values)
        A == 1..Len(current_values)
        target_values == [i \in A |-> FMul(self.target_weights[i], total_value)]
        value_to_trade == [i \in A |-> FSub(target_values[i], current_values[i])]
        shares_to_trade == [i \in A |-> FDiv(value_to_trade[i], current_prices[i])]
    IN  IF current_weights.kind = "exception" THEN current_weights
        ELSE LET weight_drift == [i \in A |->
                                    FSub(current_weights.val[i], self.target_weights[i])]
             IN  Value([table |-> "trades",
                        ticker |-> self.tickers,
                        current_weight |-> current_weights.val,
                        target_weight |-> self.target_weights,
                        weight_drift |-> weight_drift,
                        current_value |-> current_values,
                        target_value |-> target_values,
                        value_to_trade |-> value_to_trade,
                        current_price |-> current_prices,
                        shares_to_trade |-> shares_to_trade,
                        action |-> [i \in A |-> Action(shares_to_trade[i])],
                        drift_pct |-> [i \in A |->
                            FillNa(FMul(FDiv(weight_drift[i], self.target_weights[i]),
                                        Fin(100, 1)))]])

\* the rows of a column that a mask selects
Where(column, mask) == SelectSeq([i \in 1..Len(column) |-> <<column[i], mask[i]>>],
                                 LAMBDA r : r[2])
Selected(column, mask) == [i \in 1..Len(Where(column, mask)) |-> Where(column, mask)[i][1]]

RECURSIVE MaxOf(_)
MaxOf(s) == IF Len(s) = 1 THEN s[1] ELSE FMax(MaxOf(SubSeq(s, 1, Len(s) - 1)), s[Len(s)])

\* lines 121-140
get_rebalancing_summary(trades) ==
    LET A == 1..Len(trades.action)
        v == trades.value_to_trade
        drift == [i \in A |-> FAbs(trades.weight_drift[i])]
        total_buy_value == FSum(Selected(v, [i \in A |-> FLt(Zero, v[i])]))
        total_sell_value == FAbs(FSum(Selected(v, [i \in A |-> FLt(v[i], Zero)])))
        max_drift == MaxOf(drift)
    IN  [total_buy_value |-> total_buy_value,
         total_sell_value |-> total_sell_value,
         max_drift |-> max_drift,
         max_drift_ticker |-> trades.ticker[CHOOSE i \in A :
                                  /\ drift[i] = max_drift
                                  /\ \A j \in A : drift[j] = max_drift => i <= j],
         number_of_buys |-> Cardinality({i \in A : trades.action[i] = "BUY"}),
         number_of_sells |-> Cardinality({i \in A : trades.action[i] = "SELL"}),
         number_of_holds |-> Cardinality({i \in A : trades.action[i] = "HOLD"}),
         turnover |-> FDiv(FDiv(FAdd(total_buy_value, total_sell_value), Fin(2, 1)),
                           FSum(trades.current_value))]

\* lines 157-212
suggest_minimal_rebalancing(self, current_values, current_prices, transaction_cost) ==
    LET current_weights == calculate_current_weights(self, current_values)
    IN  IF current_weights.kind = "exception" THEN current_weights
        ELSE
        LET A == 1..self.n_assets
            drift == check_drift(self, current_weights.val)
            assets_to_rebalance == [i \in A |->
                                       FLt(self.drift_threshold, drift.weight_diff[i])]
            total_value == FSum(current_values)
            adjusted == [i \in A |-> IF assets_to_rebalance[i]
                                     THEN self.target_weights[i]
                                     ELSE current_weights.val[i]]
            new_weights == [i \in A |-> FDiv(adjusted[i], FSum(adjusted))]
            target_values == [i \in A |-> FMul(new_weights[i], total_value)]
            value_to_trade == [i \in A |-> FSub(target_values[i], current_values[i])]
            shares_to_trade == [i \in A |-> FDiv(value_to_trade[i], current_prices[i])]
        IN  IF ~drift.needs_rebalancing
            THEN Value([table |-> "hold",
                        ticker |-> self.tickers,
                        action |-> [i \in A |-> "HOLD"],
                        message |-> [i \in A |-> "Within threshold"]])
            ELSE Value([table |-> "minimal",
                        ticker |-> self.tickers,
                        current_weight |-> current_weights.val,
                        target_weight |-> self.target_weights,
                        new_weight |-> new_weights,
                        weight_drift |-> [i \in A |-> FSub(current_weights.val[i],
                                                           self.target_weights[i])],
                        needs_rebalancing |-> assets_to_rebalance,
                        current_value |-> current_values,
                        target_value |-> target_values,
                        value_to_trade |-> value_to_trade,
                        shares_to_trade |-> shares_to_trade,
                        transaction_cost |-> [i \in A |-> FMul(FAbs(value_to_trade[i]),
                                                               transaction_cost)],
                        current_price |-> current_prices,
                        action |-> [i \in A |-> Action(shares_to_trade[i])]])

\* lines 226-252; now is what datetime.now() returns during the call
monitor_portfolio(self, current_values, timestamp, now) ==
    LET current_weights == calculate_current_weights(self, current_values)
    IN  IF current_weights.kind = "exception" THEN current_weights
        ELSE
        LET A == 1..self.n_assets
            w == current_weights.val
            drift == check_drift(self, w)
            drifted == [i \in A |-> FLt(self.drift_threshold, drift.weight_diff[i])]
            alert == [i \in A |->
                        [ticker |-> self.tickers[i],
                         current_weight |-> w[i],
                         target_weight |-> self.target_weights[i],
                         drift |-> drift.weight_diff[i],
                         drift_pct |-> FMul(FDiv(FSub(w[i], self.target_weights[i]),
                                                 self.target_weights[i]), Fin(100, 1)),
                         status |-> IF FLt(self.target_weights[i], w[i])
                                    THEN "OVERWEIGHT" ELSE "UNDERWEIGHT"]]
        IN  Value([timestamp |-> IF timestamp = None THEN now ELSE timestamp,
                   needs_rebalancing |-> drift.needs_rebalancing,
                   max_drift |-> MaxOf(drift.weight_diff),
                   avg_drift |-> Mean(drift.weight_diff),
                   alerts |-> Selected(alert, drifted),
                   current_weights |-> w,
                   target_weights |-> self.target_weights])

\* the rebalancers, position values, prices and clock readings of the trade
\* calls; the second target does not sum to 1
TradeTargets ==
    {<<Fin(1, 2), Fin(1, 2)>>, <<Fin(1, 2), Fin(1, 4)>>,
     <<Fin(1, 2), Fin(1, 4), Fin(1, 4)>>}
TradeValues == {Fin(-50, 1), Zero, Fin(20, 1), Fin(50, 1), Fin(60, 1)}
TradePrices == {Zero, FOne, Fin(1000, 1)}
TransactionCosts == {Fin(1, 1000)}
Clock == {Value(t) : t \in 1..MaxClock}

TradesInit ==
    /\ \E t \in TradeTargets, d \in DriftThresholds :
           rb = [self |-> Rebalancer(t, d), call |-> NoRebalancerCall]
    /\ MetricsIdle /\ OptimizerIdle /\ SimulatorIdle /\ Binary64Idle
    /\ DataHandlerIdle /\ RetirementIdle

RebalancerCall(op, current_values, current_prices, result) ==
    [op |-> op, current_values |-> current_values, current_prices |-> current_prices,
     result |-> result]

CallCurrentWeights ==
    /\ rb.call.op = "none"
    /\ \E v \in Vectors(rb.self.n_assets, TradeValues) :
           rb' = [rb EXCEPT !.call = RebalancerCall("calculate_current_weights", v, <<>>,
                                         calculate_current_weights(rb.self, v))]
    /\ UNCHANGED <<metricVars, optVars, simVars, fpVars, dhVars, rpVars>>

CallTrades ==
    /\ rb.call.op = "none"
    /\ \E v \in Vectors(rb.self.n_assets, TradeValues),
          p \in Vectors(rb.self.n_assets, TradePrices) :
           rb' = [rb EXCEPT !.call = RebalancerCall("calculate_rebalancing_trades", v, p,
                                         calculate_rebalancing_trades(rb.self, v, p))]
    /\ UNCHANGED <<metricVars, optVars, simVars, fpVars, dhVars, rpVars>>

\* the summary of the trade table just made (src/app.py, src/example.py)
CallSummary ==
    /\ rb.call.op = "calculate_rebalancing_trades" /\ rb.call.result.kind = "value"
    /\ rb' = [rb EXCEPT !.call =
                [op |-> "get_rebalancing_summary", trades |-> rb.call.result.val,
                 result |-> Value(get_rebalancing_summary(rb.call.result.val))]]
    /\ UNCHANGED <<metricVars, optVars, simVars, fpVars, dhVars, rpVars>>

\* a variant that keeps the new weights of its table as the target weights;
\* C26 does not survive it
CallMinimalAdoptingNewWeights ==
    /\ rb.call.op = "none"
    /\ \E v \in Vectors(rb.self.n_assets, TradeValues),
          p \in Vectors(rb.self.n_assets, TradePrices), c \in TransactionCosts :
           LET result == suggest_minimal_rebalancing(rb.self, v, p, c)
               adopted == IF result.kind = "value" /\ result.val.table = "minimal"
                          THEN result.val.new_weight ELSE rb.self.target_weights
           IN  rb' = [self |-> [rb.self EXCEPT !.target_weights = adopted],
                      call |-> [op |-> "suggest_minimal_rebalancing", current_values |-> v,
                                current_prices |-> p, transaction_cost |-> c,
                                result |-> result]]
    /\ UNCHANGED <<metricVars, optVars, simVars, fpVars, dhVars, rpVars>>

CallMinimal ==
    /\ rb.call.op = "none"
    /\ \E v \in Vectors(rb.self.n_assets, TradeValues),
          p \in Vectors(rb.self.n_assets, TradePrices), c \in TransactionCosts :
           rb' = [rb EXCEPT !.call =
                    [op |-> "suggest_minimal_rebalancing", current_values |-> v,
                     current_prices |-> p, transaction_cost |-> c,
                     result |-> suggest_minimal_rebalancing(rb.self, v, p, c)]]
    /\ UNCHANGED <<metricVars, optVars, simVars, fpVars, dhVars, rpVars>>

\* monitor_portfolio with a timestamp of the caller or, by default, none; the
\* clock is read during the call
CallMonitor ==
    /\ rb.call.op = "none"
    /\ \E v \in Vectors(rb.self.n_assets, TradeValues), t \in {None} \cup Clock,
          now \in Clock :
           rb' = [rb EXCEPT !.call =
                    [op |-> "monitor_portfolio", current_values |-> v, timestamp |-> t,
                     result |-> monitor_portfolio(rb.self, v, t, now)]]
    /\ UNCHANGED <<metricVars, optVars, simVars, fpVars, dhVars, rpVars>>

\* the caller has used the result; the rebalancer is ready for the next call
Return ==
    /\ rb.call.op # "none"
    /\ rb' = [rb EXCEPT !.call = NoRebalancerCall]
    /\ UNCHANGED <<metricVars, optVars, simVars, fpVars, dhVars, rpVars>>

TradesNext ==
    CallCurrentWeights \/ CallTrades \/ CallSummary \/ CallMinimal \/ CallMonitor \/ Return

SpecTrades == TradesInit /\ [][TradesNext]_vars

(***************************************************************************)
(* Signed binary64 arithmetic, for the element-wise operations of numpy on *)
(* float64 arrays: a number is sign * m * 2^e with a mantissa m of exactly *)
(* 53 bits, kept as limbs of 14 bits, lowest first (sign 0 and no limbs    *)
(* for zero).  Every operation rounds the exact result to the nearest      *)
(* double, ties to even.  The exponent is unbounded: values stay far from  *)
(* the overflow and underflow thresholds of the format.                    *)
(***************************************************************************)
Limb == 2^14
B64(sign, e, m) == [sign |-> sign, e |-> e, m |-> m]
Zero64 == B64(0, 0, <<>>)

BAt(a, i) == IF i \in 1..Len(a) THEN a[i] ELSE 0
RECURSIVE BTrim(_)
BTrim(a) == IF a = <<>> \/ a[Len(a)] # 0 THEN a ELSE BTrim(SubSeq(a, 1, Len(a) - 1))
\* the limbs of the number whose columns (which may exceed a limb, or be
\* negative) are c
RECURSIVE Carry(_, _)
Carry(c, carry) ==
    IF c = <<>> THEN (IF carry = 0 THEN <<>> ELSE <<carry % Limb>> \o Carry(<<>>, carry \div Limb))
    ELSE <<(c[1] + carry) % Limb>> \o Carry(Tail(c), (c[1] + carry) \div Limb)
Longest(a, b) == IF Len(a) >= Len(b) THEN Len(a) ELSE Len(b)
BAdd(a, b) == BTrim(Carry([i \in 1..Longest(a, b) |-> BAt(a, i) + BAt(b, i)], 0))
\* a - b, for a >= b
BSub(a, b) == BTrim(Carry([i \in 1..Longest(a, b) |-> BAt(a, i) - BAt(b, i)], 0))
ColSum(a, b, k) ==
    LET S[i \in 0..Len(a)] == IF i = 0 THEN 0 ELSE S[i - 1] + a[i] * BAt(b, k + 1 - i)
    IN  S[Len(a)]
BMul(a, b) ==
    IF a = <<>> \/ b = <<>> THEN <<>>
    ELSE BTrim(Carry([k \in 1..(Len(a) + Len(b) - 1) |-> ColSum(a, b, k)], 0))
RECURSIVE BCmp(_, _)
BCmp(a, b) ==
    IF Len(a) # Len(b) THEN (IF Len(a) < Len(b) THEN -1 ELSE 1)
    ELSE IF a = <<>> THEN 0
    ELSE IF a[Len(a)] # b[Len(b)] THEN (IF a[Len(a)] < b[Len(b)] THEN -1 ELSE 1)
    ELSE BCmp(BTrim(SubSeq(a, 1, Len(a) - 1)), BTrim(SubSeq(b, 1, Len(b) - 1)))
BShl(a, n) == BTrim([i \in 1..(n \div 14) |-> 0] \o BMul(a, <<2^(n % 14)>>))
BShr(a, n) ==
    LET x == SubSeq(a, n \div 14 + 1, Len(a))
        r == n % 14
    IN  BTrim([i \in 1..Len(x) |-> x[i] \div 2^r + (BAt(x, i + 1) % 2^r) * 2^(14 - r)])
BBit(a, n) == (BAt(a, n \div 14 + 1) \div 2^(n % 14)) % 2
BLowNonZero(a, n) ==
    \/ \E i \in 1..(n \div 14) : BAt(a, i) # 0
    \/ BAt(a, n \div 14 + 1) % 2^(n % 14) # 0
BitLen(a) ==
    IF a = <<>> THEN 0
    ELSE 14 * (Len(a) - 1) + CHOOSE k \in 1..14 : 2^(k - 1) <= a[Len(a)] /\ a[Len(a)] < 2^k

\* the double nearest to sign * m * 2^e, where sticky says that m was cut
\* off from something larger
Round64(sign, m, sticky, e) ==
    LET n == BitLen(m)
        k == n - 53
        q == BShr(m, k)
        up == /\ BBit(m, k - 1) = 1
              /\ (sticky \/ BLowNonZero(m, k - 1) \/ BBit(q, 0) = 1)
        r == IF up THEN BAdd(q, <<1>>) ELSE q
    IN  IF n = 0 THEN Zero64
        ELSE IF n <= 53 THEN B64(sign, e - (53 - n), BShl(m, 53 - n))
        ELSE IF BitLen(r) = 54 THEN B64(sign, e + k + 1, BShr(r, 1))
        ELSE B64(sign, e + k, r)

Neg64(a) == [a EXCEPT !.sign = 0 - a.sign]
Abs64(a) == [a EXCEPT !.sign = a.sign * a.sign]
Plus64(a, b) ==
    LET big == IF a.e >= b.e THEN a ELSE b
        small == IF a.e >= b.e THEN b ELSE a
        gap == big.e - small.e
        M == BShl(big.m, gap)
        c == BCmp(M, small.m)
    IN  IF a.sign = 0 THEN b
        ELSE IF b.sign = 0 THEN a
        ELSE IF gap > 64 THEN big
        ELSE IF a.sign = b.sign THEN Round64(a.sign, BAdd(M, small.m), FALSE, small.e)
        ELSE IF c = 0 THEN Zero64
        ELSE IF c = 1 THEN Round64(big.sign, BSub(M, small.m), FALSE, small.e)
        ELSE Round64(small.sign, BSub(small.m, M), FALSE, small.e)
Minus64(a, b) == Plus64(a, Neg64(b))
Times64(a, b) ==
    IF a.sign = 0 \/ b.sign = 0 THEN Zero64
    ELSE Round64(a.sign * b.sign, BMul(a.m, b.m), FALSE, a.e + b.e)
\* the quotient of rem * 16^steps by d, four bits at a time, and whether
\* anything remains
RECURSIVE BDiv(_, _, _, _)
BDiv(rem, d, q, steps) ==
    IF steps = 0 THEN [q |-> q, exact |-> rem = <<>>]
    ELSE LET r == BMul(rem, <<16>>)
             digit == CHOOSE x \in 0..15 :
                          /\ BCmp(BMul(d, <<x>>), r) <= 0
                          /\ BCmp(r, BMul(d, <<x + 1>>)) < 0
             next == [q |-> BAdd(BMul(q, <<16>>), <<digit>>),
                      rem |-> BSub(r, BMul(d, <<digit>>))]
         IN  IF next.rem = <<>> THEN [q |-> BShl(next.q, 4 * (steps - 1)), exact |-> TRUE]
             ELSE BDiv(next.rem, d, next.q, steps - 1)
\* a / b, for b other than zero
Over64(a, b) ==
    LET first == IF BCmp(a.m, b.m) >= 0 THEN 1 ELSE 0
        d == BDiv(BSub(a.m, BMul(b.m, <<first>>)), b.m, BTrim(<<first>>), 14)
    IN  IF a.sign = 0 THEN Zero64
        ELSE Round64(a.sign * b.sign, d.q, ~d.exact, a.e - b.e - 56)
Less64(a, b) ==
    IF a.sign # b.sign THEN a.sign < b.sign
    ELSE IF a.sign = 0 THEN FALSE
    ELSE IF a.sign = 1 THEN a.e < b.e \/ (a.e = b.e /\ BCmp(a.m, b.m) < 0)
    ELSE b.e < a.e \/ (a.e = b.e /\ BCmp(b.m, a.m) < 0)

(***************************************************************************)
(* The rebalancer on binary64 numbers: the current weights, the drift      *)
(* check, the full trade table and its summary computed as numpy computes  *)
(* them, one rounded operation per element.  Portfolios have two assets,   *)
(* so that every sum is a single addition.                                 *)
(***************************************************************************)
RECURSIVE SumOf64(_)
SumOf64(s) ==
    IF s = <<>> THEN Zero64
    ELSE IF Len(s) = 1 THEN s[1]
    ELSE Plus64(SumOf64(SubSeq(s, 1, Len(s) - 1)), s[Len(s)])

Two64 == B64(1, -51, <<0, 0, 0, 1024>>)
Hundred64 == B64(1, -46, <<0, 0, 0, 1600>>)
Action64(x) == IF x.sign = 1 THEN "BUY" ELSE IF x.sign = -1 THEN "SELL" ELSE "HOLD"

\* lines 42-47
calculate_current_weights64(self, current_values) ==
    LET total_value == SumOf64(current_values)
    IN  IF total_value = Zero64 THEN Raised("ValueError")
        ELSE Value([i \in 1..Len(current_values) |-> Over64(current_values[i], total_value)])

\* lines 59-62
check_drift64(self, current_weights) ==
    LET weight_diff == [i \in 1..Len(current_weights) |->
                           Abs64(Minus64(current_weights[i], self.target_weights[i]))]
    IN  [needs_rebalancing |-> \E i \in 1..Len(weight_diff) :
                                   Less64(self.drift_threshold, weight_diff[i]),
         weight_diff |-> weight_diff]

\* a variant whose trades point from the target to the current value; C23
\* does not survive it
rebalancing_trades_reversed64(self, current_values, current_prices) ==
    LET n == Len(current_values)
        total_value == SumOf64(current_values)
        current_weights == calculate_current_weights64(self, current_values)
        target_values == [i \in 1..n |-> Times64(self.target_weights[i], total_value)]
        value_to_trade == [i \in 1..n |-> Minus64(current_values[i], target_values[i])]
        shares_to_trade == [i \in 1..n |-> Over64(value_to_trade[i], current_prices[i])]
    IN  IF current_weights.kind = "exception" THEN current_weights
        ELSE Value([ticker |-> self.tickers,
                    current_weight |-> current_weights.val,
                    target_weight |-> self.target_weights,
                    weight_drift |-> [i \in 1..n |-> Minus64(current_weights.val[i],
                                                             self.target_weights[i])],
                    current_value |-> current_values,
                    target_value |-> target_values,
                    value_to_trade |-> value_to_trade,
                    current_price |-> current_prices,
                    shares_to_trade |-> shares_to_trade,
                    action |-> [i \in 1..n |-> Action64(shares_to_trade[i])],
                    drift_pct |-> [i \in 1..n |->
                        Times64(Over64(Minus64(current_weights.val[i], self.target_weights[i]),
                                       self.target_weights[i]), Hundred64)]])

\* lines 76-109; the targets are not zero, so that Drift % has no NaN to fill
calculate_rebalancing_trades64(self, current_values, current_prices) ==
    LET n == Len(current_values)
        total_value == SumOf64(current_values)
        current_weights == calculate_current_weights64(self, current_values)
        target_values == [i \in 1..n |-> Times64(self.target_weights[i], total_value)]
        value_to_trade == [i \in 1..n |-> Minus64(target_values[i], current_values[i])]
        shares_to_trade == [i \in 1..n |-> Over64(value_to_trade[i], current_prices[i])]
    IN  IF current_weights.kind = "exception" THEN current_weights
        ELSE Value([ticker |-> self.tickers,
                    current_weight |-> current_weights.val,
                    target_weight |-> self.target_weights,
                    weight_drift |-> [i \in 1..n |-> Minus64(current_weights.val[i],
                                                             self.target_weights[i])],
                    current_value |-> current_values,
                    target_value |-> target_values,
                    value_to_trade |-> value_to_trade,
                    current_price |-> current_prices,
                    shares_to_trade |-> shares_to_trade,
                    action |-> [i \in 1..n |-> Action64(shares_to_trade[i])],
                    drift_pct |-> [i \in 1..n |->
                        Times64(Over64(Minus64(current_weights.val[i], self.target_weights[i]),
                                       self.target_weights[i]), Hundred64)]])

CountOf(actions, a) == Cardinality({i \in 1..Len(actions) : actions[i] = a})

\* a variant whose Total Sell Value keeps the sign of the sells; C27 does not
\* survive it
summary_of_signed_sells64(trades) ==
    LET buys == SelectSeq(trades.value_to_trade, LAMBDA x : x.sign = 1)
        sells == SelectSeq(trades.value_to_trade, LAMBDA x : x.sign = -1)
        total_buy == SumOf64(buys)
        total_sell == SumOf64(sells)
        drift == [i \in 1..Len(trades.weight_drift) |-> Abs64(trades.weight_drift[i])]
        largest == CHOOSE i \in 1..Len(drift) :
                       /\ \A j \in 1..Len(drift) : ~Less64(drift[i], drift[j])
                       /\ \A j \in 1..(i - 1) : Less64(drift[j], drift[i])
    IN  [total_buy_value |-> total_buy,
         total_sell_value |-> total_sell,
         max_drift |-> drift[largest],
         max_drift_ticker |-> trades.ticker[largest],
         number_of_buys |-> CountOf(trades.action, "BUY"),
         number_of_sells |-> CountOf(trades.action, "SELL"),
         number_of_holds |-> CountOf(trades.action, "HOLD"),
         turnover |-> Over64(Over64(Plus64(total_buy, total_sell), Two64),
                             SumOf64(trades.current_value))]

\* lines 121-140
get_rebalancing_summary64(trades) ==
    LET buys == SelectSeq(trades.value_to_trade, LAMBDA x : x.sign = 1)
        sells == SelectSeq(trades.value_to_trade, LAMBDA x : x.sign = -1)
        total_buy == SumOf64(buys)
        total_sell == Abs64(SumOf64(sells))
        drift == [i \in 1..Len(trades.weight_drift) |-> Abs64(trades.weight_drift[i])]
        largest == CHOOSE i \in 1..Len(drift) :
                       /\ \A j \in 1..Len(drift) : ~Less64(drift[i], drift[j])
                       /\ \A j \in 1..(i - 1) : Less64(drift[j], drift[i])
    IN  [total_buy_value |-> total_buy,
         total_sell_value |-> total_sell,
         max_drift |-> drift[largest],
         max_drift_ticker |-> trades.ticker[largest],
         number_of_buys |-> CountOf(trades.action, "BUY"),
         number_of_sells |-> CountOf(trades.action, "SELL"),
         number_of_holds |-> CountOf(trades.action, "HOLD"),
         turnover |-> Over64(Over64(Plus64(total_buy, total_sell), Two64),
                             SumOf64(trades.current_value))]

Targets64 ==
    {<<B64(1, -53, <<0, 0, 0, 1024>>), B64(1, -53, <<0, 0, 0, 1024>>)>>,   \* 0.5, 0.5
     <<B64(1, -53, <<13107, 3276, 13107, 1228>>),
       B64(1, -54, <<6554, 9830, 6553, 1638>>)>>,                            \* 0.6, 0.4
     <<B64(1, -53, <<9830, 6553, 9830, 1433>>),
       B64(1, -54, <<13107, 3276, 13107, 1228>>)>>}                          \* 0.7, 0.3
Thresholds64 == {Zero64, B64(1, -57, <<6554, 9830, 6553, 1638>>)}            \* 0.0, 0.05
Values64 ==
    {B64(1, -49, <<0, 0, 0, 1280>>),    \* 10.0
     B64(1, -47, <<0, 0, 0, 1056>>),    \* 33.0
     B64(1, -46, <<0, 0, 0, 1280>>)}    \* 80.0
Prices64 ==
    {B64(1, -52, <<0, 0, 0, 1024>>),    \* 1.0
     B64(1, -46, <<0, 0, 0, 1600>>)}    \* 100.0

NoCall64 == [op |-> "none", current_values |-> <<>>, current_prices |-> <<>>, result |-> None]

Trades64Init ==
    /\ \E t \in Targets64, d \in Thresholds64 :
           fp = [self |-> [target_weights |-> t, tickers |-> <<1, 2>>,
                           drift_threshold |-> d, n_assets |-> 2],
                 call |-> NoCall64]
    /\ MetricsIdle /\ OptimizerIdle /\ SimulatorIdle /\ RebalancerIdle
    /\ DataHandlerIdle /\ RetirementIdle

CallTrades64 ==
    /\ fp.call.op = "none"
    /\ \E v \in Vectors(2, Values64), p \in Prices64 :
           fp' = [fp EXCEPT !.call =
                    [op |-> "calculate_rebalancing_trades", current_values |-> v,
                     current_prices |-> <<p, p>>,
                     result |-> calculate_rebalancing_trades64(fp.self, v, <<p, p>>)]]
    /\ UNCHANGED <<metricVars, optVars, simVars, rbVars, dhVars, rpVars>>

CallSummary64 ==
    /\ fp.call.op = "calculate_rebalancing_trades" /\ fp.call.result.kind = "value"
    /\ fp' = [fp EXCEPT !.call.op = "get_rebalancing_summary",
                        !.call.result =
                            [kind |-> "summary", val |-> fp.call.result.val,
                             summary |-> get_rebalancing_summary64(fp.call.result.val)]]
    /\ UNCHANGED <<metricVars, optVars, simVars, rbVars, dhVars, rpVars>>

Return64 ==
    /\ fp.call.op # "none"
    /\ fp' = [fp EXCEPT !.call = NoCall64]
    /\ UNCHANGED <<metricVars, optVars, simVars, rbVars, dhVars, rpVars>>

Trades64Next == CallTrades64 \/ CallSummary64 \/ Return64

SpecTrades64 == Trades64Init /\ [][Trades64Next]_vars

(***************************************************************************)
(* DataHandler (src/src/data_handler.py).  A table is its column labels    *)
(* and its rows; prices, returns, mean_returns and cov_matrix are None     *)
(* until a method stores them.  What yfinance delivers is drawn at each    *)
(* download: an error (or no data at all), or a price table for some of    *)
(* the tickers asked for, the others having no data.                       *)
(***************************************************************************)
Table(columns, rows) == [loaded |-> TRUE, columns |-> columns, rows |-> rows]

\* lines 18-33
DataHandler(tickers, period_months, risk_free_rate) ==
    [tickers |-> tickers,
     period_months |-> IF period_months < 6 THEN 6
                       ELSE IF period_months > 60 THEN 60 ELSE period_months,
     risk_free_rate |-> risk_free_rate, prices |-> NoTable, returns |-> NoTable,
     mean_returns |-> None, cov_matrix |-> None]

\* lines 35-149, on the download d: the tickers and the prices are stored
\* before the table is found to be empty
fetch_data(self, d) ==
    LET kept == [self EXCEPT !.tickers = d.columns, !.prices = Table(d.columns, d.rows)]
    IN  IF d.kind = "error" THEN [self |-> self, result |-> Raised("ValueError")]
        ELSE IF d.columns = <<>> \/ d.rows = <<>>
             THEN [self |-> kept, result |-> Raised("ValueError")]
        ELSE [self |-> kept, result |-> Value(kept.prices)]

\* prices.pct_change().dropna()
PctChange(prices) ==
    Table(prices.columns,
          [t \in 1..(Len(prices.rows) - 1) |->
              [j \in 1..Len(prices.columns) |->
                  FSub(FDiv(prices.rows[t + 1][j], prices.rows[t][j]), FOne)]])

\* lines 151-162
calculate_returns(self, d) ==
    LET fetched == IF self.prices.loaded THEN [self |-> self, result |-> None]
                   ELSE fetch_data(self, d)
        returns == PctChange(fetched.self.prices)
    IN  IF fetched.result.kind = "exception" THEN fetched
        ELSE [self |-> [fetched.self EXCEPT !.returns = returns], result |-> Value(returns)]

Column(t, j) == [i \in 1..Len(t.rows) |-> t.rows[i][j]]
Annualized(x) == FMul(x, Fin(TradingDays, 1))
\* returns.mean() * 252
MeanReturns(returns) ==
    [j \in 1..Len(returns.columns) |-> Annualized(Mean(Column(returns, j)))]
\* returns.cov() * 252: the sample covariance, NaN on fewer than two rows
Covariance(x, y) ==
    IF Len(x) < 2 THEN NaN
    ELSE FDiv(FSum([i \in 1..Len(x) |-> FMul(FSub(x[i], Mean(x)), FSub(y[i], Mean(y)))]),
              Fin(Len(x) - 1, 1))
CovMatrix(returns) ==
    [j \in 1..Len(returns.columns) |-> [k \in 1..Len(returns.columns) |->
        Annualized(Covariance(Column(returns, j), Column(returns, k)))]]

\* lines 164-183, annualize = True
calculate_mean_returns(self, d) ==
    LET computed == IF self.returns.loaded THEN [self |-> self, result |-> None]
                    ELSE calculate_returns(self, d)
        mean_returns == MeanReturns(computed.self.returns)
    IN  IF computed.result.kind = "exception" THEN computed
        ELSE [self |-> [computed.self EXCEPT !.mean_returns = Value(mean_returns)],
              result |-> Value(mean_returns)]

\* lines 185-204, annualize = True
calculate_cov_matrix(self, d) ==
    LET computed == IF self.returns.loaded THEN [self |-> self, result |-> None]
                    ELSE calculate_returns(self, d)
        cov_matrix == CovMatrix(computed.self.returns)
    IN  IF computed.result.kind = "exception" THEN computed
        ELSE [self |-> [computed.self EXCEPT !.cov_matrix = Value(cov_matrix)],
              result |-> Value(cov_matrix)]

\* lines 218-228: (mean_returns.values, cov_matrix.values)
prepare_optimization_data(self, d) ==
    LET mean_returns == calculate_mean_returns(self, d)
        cov_matrix == calculate_cov_matrix(mean_returns.self, d)
    IN  IF mean_returns.result.kind = "exception" THEN mean_returns
        ELSE IF cov_matrix.result.kind = "exception" THEN cov_matrix
        ELSE [self |-> cov_matrix.self,
              result |-> Value([mean_returns |-> mean_returns.result.val,
                                cov_matrix |-> cov_matrix.result.val])]

\* the tickers 1 and 2, the periods asked for, and the downloads: ticker 1
\* at 100 or 110 on each of up to MaxRows days, ticker 2 at 50 throughout
TickerLists == {<<1>>, <<1, 2>>}
PeriodMonths == {3, 12}
Delivered(tickers) == {SubSeq(tickers, 1, k) : k \in 0..Len(tickers)}
Downloads(tickers) ==
    {[kind |-> "error", columns |-> <<>>, rows |-> <<>>]}
    \cup UNION {{[kind |-> "data", columns |-> columns,
                  rows |-> [t \in 1..T |-> [j \in 1..Len(columns) |->
                              IF columns[j] = 1 THEN quotes[t] ELSE Fin(50, 1)]]] :
                    columns \in Delivered(tickers),
                    quotes \in [1..T -> {Fin(100, 1), Fin(110, 1)}]} :
                 T \in 1..MaxRows}

DataInit ==
    /\ \E tickers \in TickerLists, months \in PeriodMonths :
           dh = [self |-> DataHandler(tickers, months, DefaultRf), call |-> NoDataCall,
                 downloads |-> 0]
    /\ MetricsIdle /\ OptimizerIdle /\ SimulatorIdle /\ RebalancerIdle /\ Binary64Idle
    /\ RetirementIdle

\* a call of a method: whether it downloads, and what it stores and returns
DataCall(op, downloads, outcome) ==
    /\ dh.downloads + (IF downloads THEN 1 ELSE 0) <= MaxDownloads
    /\ dh' = [self |-> outcome.self,
              call |-> [op |-> op, fetched |-> downloads,
                        loaded_before |-> dh.self.prices.loaded, result |-> outcome.result],
              downloads |-> dh.downloads + (IF downloads THEN 1 ELSE 0)]
    /\ UNCHANGED <<metricVars, optVars, simVars, rbVars, fpVars, rpVars>>

\* what a call receives: a download when it asks for one
Received(downloads) ==
    IF downloads THEN Downloads(dh.self.tickers)
    ELSE {[kind |-> "none", columns |-> <<>>, rows |-> <<>>]}
Unloaded == ~dh.self.returns.loaded /\ ~dh.self.prices.loaded

CallFetchData ==
    \E d \in Received(TRUE) : DataCall("fetch_data", TRUE, fetch_data(dh.self, d))

CallCalculateReturns ==
    \E d \in Received(~dh.self.prices.loaded) :
        DataCall("calculate_returns", ~dh.self.prices.loaded, calculate_returns(dh.self, d))

CallMeanReturns ==
    \E d \in Received(Unloaded) :
        DataCall("calculate_mean_returns", Unloaded, calculate_mean_returns(dh.self, d))

CallCovMatrix ==
    \E d \in Received(Unloaded) :
        DataCall("calculate_cov_matrix", Unloaded, calculate_cov_matrix(dh.self, d))

CallPrepare ==
    \E d \in Received(Unloaded) :
        DataCall("prepare_optimization_data", Unloaded,
                 prepare_optimization_data(dh.self, d))

DataNext ==
    CallFetchData \/ CallCalculateReturns \/ CallMeanReturns \/ CallCovMatrix \/ CallPrepare

SpecData == DataInit /\ [][DataNext]_vars

(***************************************************************************)
(* calculate_retirement_probability (src/src/monte_carlo.py).  A call of   *)
(* simulate_portfolio inside it is one step, from the generator state it   *)
(* finds to the one it leaves: n_simulations paths of time_horizon_years   *)
(* draws each.  The search tries the horizons 1..MaxTestYears (1..49 in    *)
(* the source) with MaxSim simulations (1000 in the source).               *)
(***************************************************************************)
AdvanceBy(p, k) == (p + k) % StreamLen

\* lines 56-64: the values of one path, from the generator state p
RECURSIVE Path(_, _, _, _, _, _)
Path(value, p, years, return, std, annual_contribution) ==
    IF years = 0 THEN <<value>>
    ELSE <<value>> \o Path(Grow(value, normal(p, return, std), annual_contribution),
                          Advance(p), years - 1, return, std, annual_contribution)

\* lines 46-97
simulate_portfolio(self, time_horizon_years, n_simulations, annual_contribution, p) ==
    LET return == portfolio_return(self.weights, self.mean_returns)
        std == FSqrt(QuadForm(self.weights, self.cov_matrix))
        paths == [t \in 1..n_simulations |->
                     Path(self.initial_investment, AdvanceBy(p, (t - 1) * time_horizon_years),
                          time_horizon_years, return, std, annual_contribution)]
    IN  Statistics([final_values |-> [t \in 1..n_simulations |->
                                         paths[t][time_horizon_years + 1]],
                    paths |-> paths, n_simulations |-> n_simulations,
                    portfolio_return |-> return, portfolio_std |-> std],
                   self.initial_investment)

\* line 168
confidence_levels == <<Fin(1, 2), Fin(3, 4), Fin(9, 10), Fin(19, 20)>>
Goals == {Fin(50, 1), Fin(120, 1), Fin(1000, 1)}
AtLeast(s, v) == SelectSeq(s, LAMBDA x : FLe(v, x))

RetirementInit ==
    /\ mc \in Simulators
    /\ rng \in 0..(StreamLen - 1)
    /\ sim = [c \in Callers |-> NoSimulation]
    /\ rp = NoRetirement
    /\ MetricsIdle /\ OptimizerIdle /\ RebalancerIdle /\ Binary64Idle /\ DataHandlerIdle

\* lines 150-165: the simulation to retirement, the success rate and the
\* average shortfall
RetireStart ==
    /\ rp.pc = "idle"
    /\ \E years \in 0..MaxYears, n \in 1..MaxSim, contribution \in Contributions,
          goal \in Goals :
         LET result == simulate_portfolio(mc, years, n, contribution, rng)
             shortfalls == [i \in 1..Len(Below(result.final_values, goal)) |->
                               FSub(goal, Below(result.final_values, goal)[i])]
         IN  /\ rp' = [NoRetirement EXCEPT
                         !.pc = "search", !.years_to_retirement = years,
                         !.annual_contribution = contribution, !.retirement_goal = goal,
                         !.n_simulations = n, !.simulation = Value(result),
                         !.success_rate = FDiv(Fin(Len(AtLeast(result.final_values, goal)), 1),
                                               Fin(n, 1)),
                         !.shortfall = IF Len(shortfalls) > 0 THEN Mean(shortfalls) ELSE Zero,
                         !.conf = 1, !.test_years = 1]
             /\ rng' = AdvanceBy(rng, n * years)
    /\ UNCHANGED <<mc, sim, metricVars, optVars, rbVars, fpVars, dhVars>>

\* lines 170-180: one horizon of the search for one confidence level
RetireTest ==
    /\ rp.pc = "search" /\ rp.conf <= Len(confidence_levels)
    /\ LET test_result == simulate_portfolio(mc, rp.test_years, MaxSim,
                                             rp.annual_contribution, rng)
           percentile_val == percentile(test_result.final_values,
                                        FMul(confidence_levels[rp.conf], Fin(100, 1)))
           reached == FLe(rp.retirement_goal, percentile_val)
           tested == Append(rp.tested, [conf |-> rp.conf, test_years |-> rp.test_years,
                                        final_values |-> test_result.final_values])
       IN  /\ rp' = IF reached
                    THEN [rp EXCEPT !.years_needed =
                                        [c \in DOMAIN rp.years_needed \cup {rp.conf} |->
                                            IF c = rp.conf THEN rp.test_years
                                            ELSE rp.years_needed[c]],
                                    !.conf = rp.conf + 1, !.test_years = 1,
                                    !.tested = tested]
                    ELSE IF rp.test_years = MaxTestYears
                    THEN [rp EXCEPT !.conf = rp.conf + 1, !.test_years = 1,
                                    !.tested = tested]
                    ELSE [rp EXCEPT !.test_years = rp.test_years + 1, !.tested = tested]
           /\ rng' = AdvanceBy(rng, MaxSim * rp.test_years)
    /\ UNCHANGED <<mc, sim, metricVars, optVars, rbVars, fpVars, dhVars>>

\* lines 182-190
RetireReturn ==
    /\ rp.pc = "search" /\ rp.conf > Len(confidence_levels)
    /\ rp' = [rp EXCEPT
                !.pc = "done",
                !.result = Value([success_rate |-> rp.success_rate,
                                  expected_value |-> rp.simulation.val.expected_value,
                                  median_value |-> rp.simulation.val.percentiles.p50,
                                  retirement_goal |-> rp.retirement_goal,
                                  shortfall |-> rp.shortfall,
                                  years_needed |-> rp.years_needed,
                                  simulation_data |-> rp.simulation.val])]
    /\ UNCHANGED <<mc, rng, sim, metricVars, optVars, rbVars, fpVars, dhVars>>

RetirementNext == RetireStart \/ RetireTest \/ RetireReturn

SpecRetirement == RetirementInit /\ [][RetirementNext]_vars

(***************************************************************************)
(* The claims.                                                             *)
(***************************************************************************)
\* optimize has returned a weight vector
Returned == call.op = "optimize" /\ ret.kind = "value"
\* length N, sum 1 within 1e-6, every component inside [lo, hi]
ValidAllocation(w, n, lo, hi) == Len(w) = n /\ SumsToOne(w) /\ InBounds(w, lo, hi)

\* C1: whatever objective and bounds optimize was called with, and however
\* the solver ended, the weight vector it returns has length N, sums to 1
\* within 1e-6 and lies inside [min_weight, max_weight].
C1_ReturnedWeightsValid ==
    Returned =>
        ValidAllocation(ret.val.weights, opt.n_assets, call.min_weight, call.max_weight)

\* C2: when the solver ends without converging, optimize returns (it does
\* not raise), and what it returns tells a converged run from a
\* non-converged one: no run of the same call that ended the other way
\* returns the same result.
C2_ConvergenceDistinguishable ==
    (call.op = "optimize" /\ solver.status \in {"ok", "fail"}) =>
        /\ ret.kind = "value"
        /\ \A out \in optimize(opt, call.objective, call.min_weight, call.max_weight) :
              out.ret = ret => out.solver.status = solver.status

\* C3: with min_weight * N > 1, a direct call or a front-end run either
\* raises or returns a valid allocation; it never returns weights that
\* break the sum or the bounds.
InfeasibleMin == FLt(FOne, FMul(call.min_weight, Fin(opt.n_assets, 1)))
C3_InfeasibleNeverSilent ==
    (call.op = "optimize" /\ InfeasibleMin) =>
        \/ ret.kind = "exception"
        \/ ValidAllocation(ret.val.weights, opt.n_assets, call.min_weight, call.max_weight)

\* C4: optimize('equal_weight') returns w_i = 1/N for every asset without
\* invoking the solver, whatever the means, the covariance and the
\* risk-free rate are; for N = 4 it returns [1/4, 1/4, 1/4, 1/4].
EqualWeightCalled == call.op = "optimize" /\ Lower(call.objective) = "equal_weight"
C4_EqualWeightClosedForm ==
    EqualWeightCalled =>
        /\ ret.kind = "value"
        /\ solver.calls = 0
        /\ Len(ret.val.weights) = opt.n_assets
        /\ \A i \in 1..opt.n_assets :
              FMul(ret.val.weights[i], Fin(opt.n_assets, 1)) = FOne
        /\ opt.n_assets = 4 =>
              ret.val.weights = <<Fin(1, 4), Fin(1, 4), Fin(1, 4), Fin(1, 4)>>
C4_Witness ==
    /\ EqualWeightCalled /\ opt.n_assets = 4 /\ opt.risk_free_rate = Zero
    /\ ret.kind = "value" /\ ret.val.weights[4] = Fin(1, 4)

\* C5: under the default bounds [0, 1] the volatility of what
\* optimize('min_volatility') returns is at most the volatility of the
\* equal-weight portfolio and of every single-asset portfolio.
MinVolCalled ==
    /\ Returned /\ call.objective = "min_volatility"
    /\ call.min_weight = Zero /\ call.max_weight = FOne
SingleAsset(n, i) == [j \in 1..n |-> IF j = i THEN FOne ELSE Zero]
NoMoreVolatile(w) ==
    LET n == opt.n_assets
        v == portfolio_volatility(w, opt.cov_matrix)
    IN  /\ FLe(v, portfolio_volatility(Uniform(n, Fin(1, n)), opt.cov_matrix))
        /\ \A i \in 1..n : FLe(v, portfolio_volatility(SingleAsset(n, i), opt.cov_matrix))
RECURSIVE OkTargets(_, _)
OkTargets(log, targets) ==
    IF log = <<>> THEN <<>>
    ELSE IF Head(log) = "ok" THEN <<Head(targets)>> \o OkTargets(Tail(log), Tail(targets))
    ELSE OkTargets(Tail(log), Tail(targets))
FrontierLists(r, v, sh) ==
    LET ok == OkTargets(ef.log, ef.target_returns)
    IN  /\ Len(r) = Len(ok) /\ Len(v) = Len(ok) /\ Len(sh) = Len(ok)
        /\ Len(ok) <= ef.n_portfolios
        /\ r = ok
C6_FrontierSkipsFailedTargets ==
    /\ ef.pc = "loop" =>
          Len(ef.log) = ef.k - 1 /\ FrontierLists(ef.returns, ef.volatilities, ef.sharpe_ratios)
    /\ (ef.pc = "done" /\ ret.kind = "value") =>
          /\ Len(ef.log) = ef.n_portfolios
          /\ FrontierLists(ret.val.returns, ret.val.volatilities, ret.val.sharpe_ratios)
C6_Witness ==
    /\ ef.pc = "done" /\ ret.kind = "value"
    /\ ef.log = <<"fail", "ok">> /\ opt.n_assets >= 2
    /\ ef.target_returns[1] # ef.target_returns[2]
    /\ ret.val.returns = <<ef.target_returns[2]>>
    /\ Len(ret.val.volatilities) = 1 /\ Len(ret.val.sharpe_ratios) = 1

\* C7: sharpe_ratio with a portfolio volatility of exactly 0 returns +inf (or
\* raises), whatever the sign of the excess return: never NaN, never -inf.
C7_SharpeZeroVolatilityIsPInf ==
    (/\ m_in.fn = "sharpe_ratio" /\ m_out.kind # "none"
     /\ FEq(portfolio_volatility(m_in.weights, m_in.cov_matrix), Zero)) =>
        m_out.kind = "exception" \/ m_out.val = PInf

\* C8: portfolio_volatility returns neither NaN nor a negative number (or it
\* raises), also when the quadratic form is negative.
C8_VolatilityNeverNaN ==
    (m_in.fn = "portfolio_volatility" /\ m_out.kind # "none") =>
        m_out.kind = "exception" \/ FLe(Zero, m_out.val)

\* C9: sortino_ratio returns +inf whenever the weighted return series has no
\* negative return and, more generally, whenever the downside deviation is
\* zero or undefined (fewer than two negative returns).
Downside == Negatives(calculate_portfolio_returns(m_in.weights, m_in.returns))
C9_SortinoNoDownsideIsPInf ==
    (/\ m_in.fn = "sortino_ratio" /\ m_out.kind # "none"
     /\ (Len(Downside) < 2 \/ FEq(SampleStd(Downside), Zero))) =>
        m_out = Value(PInf)

\* C10: maximum_drawdown of a series of strictly positive returns, given as
\* an array or as an indexed series, returns a drawdown of exactly 0 with a
\* peak and a trough; it does not raise.
AllPositive(r) == \A t \in 1..Len(r) : FLt(Zero, r[t])
C10_PositiveSeriesDrawdownZero ==
    (/\ m_in.fn = "maximum_drawdown" /\ m_out.kind # "none"
     /\ AllPositive(m_in.returns)) =>
        m_out.kind = "value" /\ m_out.val.max_dd = Zero
\* C11: for every non-empty return series maximum_drawdown reports a trough
\* at the position of the minimum drawdown and a peak at the position of the
\* maximum cumulative wealth in the prefix that ends at, and includes, the
\* trough; the peak does not follow the trough, and the reported drawdown is
\* (C_trough - C_peak) / C_peak.
Position(index, label) == IF index = "array" THEN label + 1 ELSE label
Wealth(returns) == [t \in 1..Len(returns) |-> CumProd(returns, t)]
DrawdownAt(returns, t) ==
    LET c == Wealth(returns)
    IN  FDiv(FSub(c[t], RunningMax(c, t)), RunningMax(c, t))
C11_PeakAndTroughOfDrawdown ==
    (m_in.fn = "maximum_drawdown" /\ m_out.kind # "none") =>
        /\ m_out.kind = "value"
        /\ LET T == Len(m_in.returns)
               c == Wealth(m_in.returns)
               t == Position(m_in.index, m_out.val.trough_date)
               p == Position(m_in.index, m_out.val.peak_date)
           IN  /\ t \in 1..T /\ p \in 1..t
               /\ \A q \in 1..T :
                     FLe(DrawdownAt(m_in.returns, t), DrawdownAt(m_in.returns, q))
               /\ \A q \in 1..t : FLe(c[q], c[p])
               /\ m_out.val.max_dd = FDiv(FSub(c[t], c[p]), c[p])

\* C12: calmar_ratio returns +inf whenever the maximum drawdown of the
\* weighted return series is 0, and the annualized return divided by the
\* absolute value of the maximum drawdown otherwise; for a non-empty return
\* series it neither raises nor returns NaN.
C12_CalmarDefined ==
    (m_in.fn = "calmar_ratio" /\ m_out.kind # "none") =>
        LET r == calculate_portfolio_returns(m_in.weights, m_in.returns)
            t == CHOOSE t \in 1..Len(r) :
                    \A q \in 1..Len(r) : FLe(DrawdownAt(r, t), DrawdownAt(r, q))
            max_dd == DrawdownAt(r, t)
        IN  /\ m_out.kind = "value"
            /\ ~IsNaN(m_out.val)
            /\ m_out.val = IF FEq(max_dd, Zero) THEN PInf
                           ELSE FDiv(portfolio_return(m_in.weights, m_in.mean_returns),
                                     FAbs(max_dd))


\* C13: value_at_risk at 95% confidence on 100 weighted-return observations
\* is the 5th-smallest observation: an observation of the series, not a
\* value interpolated between two of them.
C13_VaRIsFifthSmallest ==
    (/\ m_in.fn = "value_at_risk" /\ m_out.kind # "none"
     /\ m_in.confidence_level = Fin(19, 20) /\ Len(m_in.returns) = 100) =>
        m_out = Value(Sorted(calculate_portfolio_returns(m_in.weights, m_in.returns), 5))

\* C14 (in exact arithmetic): for a non-empty series and a confidence level
\* in (0,1) the returns at or below the VaR are a non-empty selection,
\* conditional_value_at_risk is their mean, a number, and it is at most
\* value_at_risk of the same inputs.
C14_CVaRDefinedAndAtMostVaR ==
    (m_in.fn = "conditional_value_at_risk" /\ m_out.kind # "none") =>
        LET r == calculate_portfolio_returns(m_in.weights, m_in.returns)
            var == value_at_risk(m_in.weights, m_in.returns, m_in.confidence_level)
            tail == {t \in 1..Len(r) : FLe(r[t], var)}
        IN  /\ tail # {}
            /\ m_out.kind = "value" /\ IsFin(m_out.val)
            /\ FMul(m_out.val, Fin(Cardinality(tail), 1)) = FSum(AtMost(r, var))
            /\ Len(AtMost(r, var)) = Cardinality(tail)
            /\ FLe(m_out.val, var)
C14_Witness ==
    /\ m_in.fn = "conditional_value_at_risk" /\ m_out.kind = "value"
    /\ Len(m_in.returns) = 100 /\ m_in.confidence_level = Fin(19, 20)
    /\ FLt(m_out.val, value_at_risk(m_in.weights, m_in.returns, m_in.confidence_level))
    /\ FLt(Sorted(calculate_portfolio_returns(m_in.weights, m_in.returns), 1), m_out.val)

\* C14 (in binary64, as the program computes it): the returns at or below the
\* VaR are a non-empty selection and conditional_value_at_risk, their mean,
\* is at most value_at_risk of the same inputs.  The mean of three returns of
\* 0.1 is 0.30000000000000004 / 3 = 0.10000000000000002, above the VaR 0.1.
C14_CVaRAtMostVaRInBinary64 ==
    fp.op = "conditional_value_at_risk" =>
        /\ AtMost64(fp.values, fp.result.val.var) # <<>>
        /\ Le64(fp.result.val.cvar, fp.result.val.var)


\* a call of simulate_portfolio that has returned
Finished(c) == sim[c].pc = "done"
\* two calls were given the same arguments (the simulator, the weights and the
\* initial investment are the same for both callers)
SameArguments(c, d) ==
    /\ sim[c].time_horizon_years = sim[d].time_horizon_years
    /\ sim[c].n_simulations = sim[d].n_simulations
    /\ sim[c].annual_contribution = sim[d].annual_contribution

\* C15: simulate_portfolio takes a seed, and two calls with the same seed and
\* the same arguments return identical final values and paths, whatever was
\* drawn before or between them.  simulate_portfolio has no seed parameter:
\* all a caller can repeat is the arguments, and the two calls then read
\* different stretches of the global stream.
C15_SameArgumentsSameResult ==
    \A c, d \in Callers :
        (Finished(c) /\ Finished(d) /\ SameArguments(c, d))
            => /\ sim[c].result.val.final_values = sim[d].result.val.final_values
               /\ sim[c].result.val.paths = sim[d].result.val.paths


\* the k-th return a call draws when it alone reads the stream from state p
OwnStream(p, k, loc, scale) == normal((p + k - 1) % StreamLen, loc, scale)

\* C16: two calls running interleaved never read or advance the same
\* generator state: what a call draws is the stream from the state it started
\* in, whatever the other call does meanwhile.
C16_DrawsIndependentOfInterleaving ==
    \A c \in Callers :
        Finished(c) =>
            \A k \in 1..Len(sim[c].drawn) :
                sim[c].drawn[k] = OwnStream(sim[c].rng0, k, sim[c].portfolio_return,
                                            sim[c].portfolio_std)


\* the degenerate case of a call: portfolio mean 0, standard deviation 0 and
\* no contribution
Degenerate(c) ==
    /\ sim[c].portfolio_return = Zero
    /\ sim[c].portfolio_std = Zero
    /\ sim[c].annual_contribution = Zero

\* C17: in the degenerate case every path value of every trial and year is
\* the initial investment exactly, every final value is the initial
\* investment, and the probability of loss is 0.
C17_DegenerateIsConstant ==
    \A c \in Callers :
        (Finished(c) /\ Degenerate(c)) =>
            LET r == sim[c].result.val
            IN  /\ \A s \in 1..Len(r.paths) : \A y \in 1..Len(r.paths[s]) :
                       r.paths[s][y] = mc.initial_investment
                /\ \A s \in 1..Len(r.final_values) :
                       r.final_values[s] = mc.initial_investment
                /\ r.prob_loss = Zero

\* a degenerate call over the longest horizon and the most trials has returned
C17_Witness ==
    \E c \in Callers :
        /\ Finished(c) /\ Degenerate(c)
        /\ sim[c].time_horizon_years = MaxYears
        /\ sim[c].n_simulations = MaxSim
        /\ Len(sim[c].drawn) = MaxYears * MaxSim


\* the position in a call's draws of the draw of trial s, year y
DrawOf(c, s, y) == (s - 1) * sim[c].time_horizon_years + y

\* C18: the path matrix of a result has n_simulations rows of
\* time_horizon_years + 1 entries; column 0 is the initial investment; every
\* later entry is the entry before it times (1 + the return drawn for that
\* trial and year) plus the contribution, with one draw per trial and year;
\* and the final value of a trial is the last entry of its row.
C18_PathsFollowTheRecurrence ==
    \A c \in Callers :
        Finished(c) =>
            LET r == sim[c].result.val
                years == sim[c].time_horizon_years
            IN  /\ Len(r.paths) = sim[c].n_simulations
                /\ Len(r.final_values) = sim[c].n_simulations
                /\ Len(sim[c].drawn) = sim[c].n_simulations * years
                /\ \A s \in 1..sim[c].n_simulations :
                       /\ Len(r.paths[s]) = years + 1
                       /\ r.paths[s][1] = mc.initial_investment
                       /\ \A y \in 1..years :
                              r.paths[s][y + 1] =
                                  FAdd(FMul(r.paths[s][y],
                                            FAdd(FOne, sim[c].drawn[DrawOf(c, s, y)])),
                                       sim[c].annual_contribution)
                       /\ r.final_values[s] = r.paths[s][years + 1]

\* a returned call with several trials and years, a contribution and returns
\* that differ from one draw to the next
C18_Witness ==
    \E c \in Callers :
        /\ Finished(c)
        /\ sim[c].time_horizon_years = MaxYears
        /\ sim[c].n_simulations = MaxSim
        /\ sim[c].annual_contribution # Zero
        /\ sim[c].drawn[1] # sim[c].drawn[2]

\* a returned call over no years: every final value is the initial investment
C18_WitnessNoYears ==
    \E c \in Callers :
        /\ Finished(c)
        /\ sim[c].time_horizon_years = 0
        /\ sim[c].result.val.final_values = [s \in 1..MaxSim |-> mc.initial_investment]


\* check_drift has returned a value for the current weights it was given
DriftChecked == rb.call.op = "check_drift" /\ rb.call.result.kind = "value"

\* C20: check_drift returns |current - target| for every asset, and
\* needs_rebalancing is true exactly when the drift of at least one asset is
\* strictly greater than the threshold.
C20_DriftPerAssetStrict ==
    DriftChecked =>
        LET r == rb.call.result.val
            w == rb.call.current_weights
            t == rb.self.target_weights
        IN  /\ Len(r.weight_diff) = rb.self.n_assets
            /\ \A i \in 1..rb.self.n_assets :
                   /\ FLe(Zero, r.weight_diff[i])
                   /\ r.weight_diff[i] \in {FSub(w[i], t[i]), FSub(t[i], w[i])}
            /\ r.needs_rebalancing
                   <=> \E i \in 1..rb.self.n_assets :
                           /\ r.weight_diff[i] # rb.self.drift_threshold
                           /\ FLe(rb.self.drift_threshold, r.weight_diff[i])

\* weights 0.8, 0.2 against the target 0.5, 0.5: both drifts are 0.3, which
\* triggers under the threshold 0.05 and does not under the threshold 0.3,
\* although the drifts sum to 0.6
C20_Witness ==
    /\ DriftChecked
    /\ rb.self.target_weights = <<Fin(1, 2), Fin(1, 2)>>
    /\ rb.call.current_weights = <<Fin(4, 5), Fin(1, 5)>>
    /\ rb.call.result.val.weight_diff = <<Fin(3, 10), Fin(3, 10)>>
    /\ rb.self.drift_threshold = Fin(3, 10)
    /\ ~rb.call.result.val.needs_rebalancing


\* C19 (in exact arithmetic): the statistics of a result are ordered,
\* CVaR-95 <= VaR-95 <= 10th <= 25th <= 50th <= 75th <= 90th percentile.
C19_OrderedInExactArithmetic ==
    \A c \in Callers :
        Finished(c) =>
            LET r == sim[c].result.val
            IN  /\ FLe(r.cvar_95, r.var_95)
                /\ FLe(r.var_95, r.percentiles.p10)
                /\ FLe(r.percentiles.p10, r.percentiles.p25)
                /\ FLe(r.percentiles.p25, r.percentiles.p50)
                /\ FLe(r.percentiles.p50, r.percentiles.p75)
                /\ FLe(r.percentiles.p75, r.percentiles.p90)

\* a result whose statistics are all different
C19_SpreadResult ==
    \E c \in Callers :
        /\ Finished(c)
        /\ FLt(sim[c].result.val.var_95, sim[c].result.val.percentiles.p10)
        /\ FLt(sim[c].result.val.percentiles.p25, sim[c].result.val.percentiles.p50)
        /\ FLt(sim[c].result.val.percentiles.p75, sim[c].result.val.percentiles.p90)

\* C19 (in binary64, as the program computes it): for a run of at least one
\* trial the statistics are ordered, CVaR-95 <= VaR-95 <= 10th <= 25th <=
\* 50th <= 75th <= 90th percentile.  Three final values of 100000.1 have the
\* 5th percentile 100000.1 and the mean 100000.10000000002.
C19_StatisticsOrdered ==
    fp.op = "simulate_portfolio" =>
        LET r == fp.result.val
        IN  /\ Le64(r.cvar_95, r.var_95)
            /\ Le64(r.var_95, r.p10)
            /\ Le64(r.p10, r.p25)
            /\ Le64(r.p25, r.p50)
            /\ Le64(r.p50, r.p75)
            /\ Le64(r.p75, r.p90)


(***************************************************************************)
(* The trade calls of the rebalancer (SpecTrades)                          *)
(***************************************************************************)
\* the calls that take the current position values
ValueCalls ==
    {"calculate_current_weights", "calculate_rebalancing_trades",
     "suggest_minimal_rebalancing", "monitor_portfolio"}

\* the current weights a finished call reports
ReportedWeights ==
    IF rb.call.op = "calculate_current_weights" THEN rb.call.result.val
    ELSE IF rb.call.op = "monitor_portfolio" THEN rb.call.result.val.current_weights
    ELSE IF rb.call.result.val.table = "hold"
         THEN calculate_current_weights(rb.self, rb.call.current_values).val
    ELSE rb.call.result.val.current_weight

TradeTable ==
    /\ rb.call.op \in {"calculate_rebalancing_trades", "suggest_minimal_rebalancing"}
    /\ rb.call.result.kind = "value"
    /\ rb.call.result.val.table \in {"trades", "minimal"}

\* a hundredth of a share, for the "small epsilon" of C22
Epsilon == Fin(1, 100)

\* C22: a trade is labelled HOLD whenever its number of shares is within a
\* small epsilon of zero, BUY when it is above the epsilon and SELL when it is
\* below minus the epsilon
C22_HoldWithinEpsilon ==
    TradeTable =>
        \A i \in 1..rb.self.n_assets :
            LET shares == rb.call.result.val.shares_to_trade[i]
            IN  IsFin(shares) =>
                    rb.call.result.val.action[i] =
                        IF FLe(FAbs(shares), Epsilon) THEN "HOLD"
                        ELSE IF FLt(Epsilon, shares) THEN "BUY" ELSE "SELL"


\* a finished suggest_minimal_rebalancing on target weights that sum to 1
MinimalDone ==
    /\ rb.call.op = "suggest_minimal_rebalancing"
    /\ rb.call.result.kind = "value"
    /\ FSum(rb.self.target_weights) = FOne

\* C24: suggest_minimal_rebalancing sets the assets whose drift exceeds the
\* threshold exactly to their target weight and renormalises only the others,
\* so that the new weights sum to 1 and every drifted asset ends at its target
C24_DriftedEndAtTarget ==
    (MinimalDone /\ rb.call.result.val.table = "minimal") =>
        LET t == rb.call.result.val
        IN  /\ FSum(t.new_weight) = FOne
            /\ \A i \in 1..rb.self.n_assets :
                   t.needs_rebalancing[i] => t.new_weight[i] = rb.self.target_weights[i]

\* the position values after every Value to Trade of a table is applied
AfterTrades(t) == [i \in 1..Len(t.current_value) |-> FAdd(t.current_value[i], t.value_to_trade[i])]

\* C25: after the trades of suggest_minimal_rebalancing no asset drifts beyond
\* the threshold, and when no asset drifts beyond it before the call the
\* table says HOLD for every asset and carries no trade values
C25_MinimalTradesEndWithinThreshold ==
    MinimalDone =>
        LET t == rb.call.result.val
            before == check_drift(rb.self, calculate_current_weights(rb.self, rb.call.current_values).val)
        IN  /\ ~before.needs_rebalancing <=> t.table = "hold"
            /\ t.table = "hold" =>
                   /\ \A i \in 1..rb.self.n_assets : t.action[i] = "HOLD"
                   /\ DOMAIN t = {"table", "ticker", "action", "message"}
            /\ t.table = "minimal" =>
                   LET after == calculate_current_weights(rb.self, AfterTrades(t))
                   IN  /\ after.kind = "value"
                       /\ ~check_drift(rb.self, after.val).needs_rebalancing


\* what the last call returns on the configuration and its own arguments when
\* the clock reads now during it
ResultAt(now) ==
    CASE rb.call.op = "calculate_current_weights" ->
             calculate_current_weights(rb.self, rb.call.current_values)
      [] rb.call.op = "calculate_rebalancing_trades" ->
             calculate_rebalancing_trades(rb.self, rb.call.current_values,
                                          rb.call.current_prices)
      [] rb.call.op = "get_rebalancing_summary" ->
             Value(get_rebalancing_summary(rb.call.trades))
      [] rb.call.op = "suggest_minimal_rebalancing" ->
             suggest_minimal_rebalancing(rb.self, rb.call.current_values,
                                         rb.call.current_prices, rb.call.transaction_cost)
      [] rb.call.op = "monitor_portfolio" ->
             monitor_portfolio(rb.self, rb.call.current_values, rb.call.timestamp, now)
      [] OTHER -> None

\* the result is the same whatever the clock reads during the call
ResultFixedByArguments == \A now \in Clock : rb.call.result = ResultAt(now)

StampedByTheClock ==
    /\ rb.call.op = "monitor_portfolio"
    /\ rb.call.timestamp = None
    /\ rb.call.result.kind = "value"

Unstamped(result) ==
    IF StampedByTheClock THEN [result.val EXCEPT !.timestamp = None] ELSE result

\* the result is fixed by the configuration and the arguments, but for the
\* Timestamp of a report made without one, which is a reading of the clock
ResultFixedButForTheClock ==
    /\ \A now \in Clock : Unstamped(rb.call.result) = Unstamped(ResultAt(now))
    /\ StampedByTheClock => rb.call.result.val.timestamp \in Clock

One64 == B64(1, -52, <<0, 0, 0, 1024>>)
\* 1e-9, far above the rounding error of a few operations on doubles
Tolerance64 == B64(1, -82, <<5781, 8347, 8382, 1099>>)
Within64(a, b, tolerance) == ~Less64(tolerance, Abs64(Minus64(a, b)))

\* a trade table made for targets that sum to 1, on positions with a total
\* other than zero, at positive prices
FullRebalancing ==
    /\ fp.call.op = "calculate_rebalancing_trades"
    /\ fp.call.result.kind = "value"
    /\ SumOf64(fp.self.target_weights) = One64
    /\ \A i \in 1..fp.self.n_assets : fp.call.current_prices[i].sign = 1

\* the position values after every Value to Trade of the table is applied,
\* and their weights
AfterTrades64 ==
    [i \in 1..fp.self.n_assets |->
        Plus64(fp.call.result.val.current_value[i], fp.call.result.val.value_to_trade[i])]
WeightsAfterTrades64 == calculate_current_weights64(fp.self, AfterTrades64)
DriftsAt(threshold) ==
    check_drift64([fp.self EXCEPT !.drift_threshold = threshold],
                  WeightsAfterTrades64.val).needs_rebalancing

SummaryDone ==
    /\ fp.call.op = "get_rebalancing_summary"
    /\ SumOf64(fp.self.target_weights) = One64

HalfOfTradedOverTotal ==
    Over64(Over64(Plus64(fp.call.result.summary.total_buy_value,
                         fp.call.result.summary.total_sell_value), Two64),
           SumOf64(fp.call.result.val.current_value))

CountsCoverAssets ==
    fp.call.result.summary.number_of_buys + fp.call.result.summary.number_of_sells
        + fp.call.result.summary.number_of_holds = fp.self.n_assets

C28_AcceptedLimitsFeasible ==
    (/\ call.op = "optimize" /\ call.via = "app"
     /\ FLe(call.max_weight, Percent(50))
     /\ ~call.flagged) =>
        /\ FLe(FMul(call.min_weight, Fin(call.num_assets, 1)), FOne)
        /\ FLe(FOne, FMul(call.max_weight, Fin(call.num_assets, 1)))
        /\ FLe(call.min_weight, call.max_weight)


(***************************************************************************)
(* The data handler (SpecData)                                             *)
(***************************************************************************)
Calculations ==
    {"calculate_returns", "calculate_mean_returns", "calculate_cov_matrix",
     "prepare_optimization_data"}

\* C29: a calculate_* method downloads only when no prices are loaded, and
\* the mean vector and the covariance matrix that prepare_optimization_data
\* returns are those of one return table, the returns of the prices now
\* stored, for the tickers now stored
C29_CacheConsistent ==
    /\ (dh.call.op \in Calculations /\ dh.call.fetched) => ~dh.call.loaded_before
    /\ (dh.call.op = "prepare_optimization_data" /\ dh.call.result.kind = "value") =>
           LET returns == PctChange(dh.self.prices)
           IN  /\ dh.call.result.val.mean_returns = MeanReturns(returns)
               /\ dh.call.result.val.cov_matrix = CovMatrix(returns)
               /\ dh.self.returns.columns = dh.self.tickers


\* the horizons tried for the confidence level c, in the order of the search
TestsOf(c) == SelectSeq(rp.tested, LAMBDA t : t.conf = c)
\* at least the fraction confidence_levels[c] of the final values reach the goal
Qualifies(t, c) ==
    FLe(confidence_levels[c],
        FDiv(Fin(Len(AtLeast(t.final_values, rp.retirement_goal)), 1),
             Fin(Len(t.final_values), 1)))
FirstQualifyingHorizon(c, years_needed) ==
    LET tests == TestsOf(c)
    IN  IF c \in DOMAIN years_needed
        THEN /\ \E i \in 1..Len(tests) :
                  tests[i].test_years = years_needed[c] /\ Qualifies(tests[i], c)
             /\ \A i \in 1..Len(tests) :
                  tests[i].test_years < years_needed[c] => ~Qualifies(tests[i], c)
        ELSE \A i \in 1..Len(tests) : ~Qualifies(tests[i], c)
NeverDecreases(years_needed) ==
    \A c, d \in DOMAIN years_needed : c < d => years_needed[c] <= years_needed[d]

\* C30: in the dictionary calculate_retirement_probability returns, the
\* years_needed entry of each confidence level c is the first horizon at which
\* at least a fraction c of the simulated final values reach the retirement
\* goal, it is absent when no horizon qualifies, and the entries never
\* decrease as the confidence level increases.
C30_YearsNeededIsFirstQualifyingHorizon ==
    rp.pc = "done" =>
        LET years_needed == rp.result.val.years_needed
        IN  /\ \A c \in 1..Len(confidence_levels) :
                  FirstQualifyingHorizon(c, years_needed)
            /\ NeverDecreases(years_needed)

\* the parts of C30 taken one at a time
C30_EntriesQualify ==
    rp.pc = "done" =>
        \A c \in DOMAIN rp.years_needed :
            \E i \in 1..Len(TestsOf(c)) :
                /\ TestsOf(c)[i].test_years = rp.years_needed[c]
                /\ Qualifies(TestsOf(c)[i], c)
C30_EntriesNeverDecrease == rp.pc = "done" => NeverDecreases(rp.years_needed)
C30_AbsentWhenNoneReachesThePercentile ==
    rp.pc = "done" =>
        \A c \in 1..Len(confidence_levels) :
            c \notin DOMAIN rp.years_needed =>
                /\ Len(TestsOf(c)) = MaxTestYears
                /\ \A i \in 1..MaxTestYears :
                      /\ TestsOf(c)[i].test_years = i
                      /\ FLt(percentile(TestsOf(c)[i].final_values,
                                        FMul(confidence_levels[c], Fin(100, 1))),
                             rp.retirement_goal)
\* the search terminates: the horizons left to try are never negative and
\* every horizon tried leaves fewer of them
HorizonsLeft ==
    (Len(confidence_levels) + 1 - rp.conf) * MaxTestYears - (rp.test_years - 1)
C30_SearchTerminates ==
    /\ [][rp.pc = "search" /\ rp'.pc = "search" => HorizonsLeft' < HorizonsLeft]_vars
    /\ [](rp.pc = "search" => HorizonsLeft >= 0)
    /\ [](rp.pc = "search" /\ rp.conf > Len(confidence_levels) => HorizonsLeft = 0)

=============================================================================
